---- MODULE Spec2Model ----
(***************************************************************************)
(* MicroWin backend: the step validator (services/microwin_service.py),    *)
(* the task/step store (database.py) and the request handlers (app.py).    *)
(*                                                                         *)
(* Python text is a sequence of one-character strings, so that lower(),    *)
(* `in` and startswith() are computed on characters.  A value that may be  *)
(* None is a sequence of length 0 (None) or 1 (the value).                 *)
(***************************************************************************)
EXTENDS Integers, Sequences, FiniteSets, TLC

VARIABLES
    tasks,          \* table tasks: task id (1..Len) -> row
    steps,          \* table steps: step id (1..Len) -> row
    clock,          \* CURRENT_TIMESTAMP of the store
    reqs,           \* request slot -> the handler's position and locals
    started,        \* requests accepted so far
    returned,       \* the response sent last, with the request it answers
    v_response,     \* validator run: the llm_response argument
    v_enforce,      \* validator run: the enforce_shorter argument
    v_result,       \* validator run: the outcome of _validate_step
    g_op,           \* service run: the operation of MicroWinService called
    g_reply,        \* service run: what the backend does when it is called
    g_pc,           \* service run: the statement the operation is at
    g_calls,        \* service run: calls of _call_llm made so far
    g_validations,  \* service run: calls of _validate_step made so far
    g_response,     \* service run: the text _call_llm returned, if it did
    g_result,       \* service run: what the operation returned or raised
    c_call,         \* store run: the method of Database being executed
    c_phase,        \* store run: the statement that method, or the handler, is at
    c_open,         \* store run: connections to the database file that are open
    c_txn           \* store run: a transaction is open (a write not yet committed)

vars ==
    <<tasks, steps, clock, reqs, started, returned, v_response, v_enforce, v_result,
      g_op, g_reply, g_pc, g_calls, g_validations, g_response, g_result,
      c_call, c_phase, c_open, c_txn>>

storeVars == <<tasks, steps, clock, reqs, started, returned>>
validatorVars == <<v_response, v_enforce, v_result>>
serviceVars == <<g_op, g_reply, g_pc, g_calls, g_validations, g_response, g_result>>
connVars == <<c_call, c_phase, c_open, c_txn>>

(***************************************************************************)
(* Bounds of the model.                                                    *)
(***************************************************************************)
MaxWords == 2        \* words per candidate step text
MaxSeconds == 11     \* largest estimated_seconds a candidate carries
MaxRequests == 3     \* requests accepted in one behaviour
MaxInFlight == 2     \* handlers running at the same time
MaxDuration == 1     \* largest duration_seconds a next request carries

(***************************************************************************)
(* Settings (config.py).                                                   *)
(***************************************************************************)
max_step_seconds == 10
simplification_max_seconds == 5

(***************************************************************************)
(* Python values.                                                          *)
(***************************************************************************)
None == <<>>
Some(x) == <<x>>

JStr(s) == [kind |-> "str", s |-> s]
JInt(i) == [kind |-> "int", i |-> i]
JFloat(t) == [kind |-> "float", twice |-> t]      \* the float t/2
JBool(b) == [kind |-> "bool", b |-> b]
JNull == [kind |-> "NoneType"]
JList(items) == [kind |-> "list", items |-> items]
JDict(o) == [kind |-> "dict", o |-> o]

(***************************************************************************)
(* str.lower(), `x in s` and s.startswith(x) on character sequences.       *)
(***************************************************************************)
UpperCase ==
    <<"A","B","C","D","E","F","G","H","I","J","K","L","M",
      "N","O","P","Q","R","S","T","U","V","W","X","Y","Z">>
LowerCase ==
    <<"a","b","c","d","e","f","g","h","i","j","k","l","m",
      "n","o","p","q","r","s","t","u","v","w","x","y","z">>

lower_char(c) ==
    IF \E i \in 1..Len(UpperCase) : UpperCase[i] = c
    THEN LowerCase[CHOOSE i \in 1..Len(UpperCase) : UpperCase[i] = c]
    ELSE c

lower(s) == [i \in 1..Len(s) |-> lower_char(s[i])]

str_contains(s, x) ==
    \E i \in 1..(Len(s) - Len(x) + 1) : SubSeq(s, i, i + Len(x) - 1) = x

startswith(s, x) ==
    Len(x) <= Len(s) /\ SubSeq(s, 1, Len(x)) = x

(***************************************************************************)
(* The two policy lists of _validate_step, in source order.                *)
(***************************************************************************)
abstract_verbs ==
    << <<"o","r","g","a","n","i","z","e">>,
       <<"p","l","a","n">>,
       <<"p","r","e","p","a","r","e">>,
       <<"t","h","i","n","k">>,
       <<"d","e","c","i","d","e">>,
       <<"c","o","n","s","i","d","e","r">>,
       <<"f","i","g","u","r","e"," ","o","u","t">>,
       <<"w","o","r","k"," ","o","n">>,
       <<"d","e","a","l"," ","w","i","t","h">> >>

concrete_verbs ==
    << <<"p","i","c","k">>, <<"g","r","a","b">>, <<"o","p","e","n">>,
       <<"c","l","o","s","e">>, <<"w","a","l","k">>, <<"t","a","p">>,
       <<"t","o","u","c","h">>, <<"c","l","i","c","k">>,
       <<"p","r","e","s","s">>, <<"p","u","l","l">>, <<"p","u","s","h">>,
       <<"t","a","k","e">>, <<"p","u","t">>, <<"p","l","a","c","e">>,
       <<"m","o","v","e">>, <<"s","t","a","n","d">>, <<"s","i","t">>,
       <<"t","u","r","n">>, <<"l","o","o","k">>, <<"f","i","n","d">> >>

has_concrete_verb(step_lower) ==
    \E i \in 1..Len(concrete_verbs) : startswith(step_lower, concrete_verbs[i])

\* Mutant of first_abstract_verb: the last matching entry is reported.
last_abstract_verb(step_lower) ==
    IF \E i \in 1..Len(abstract_verbs) : str_contains(step_lower, abstract_verbs[i])
    THEN CHOOSE i \in 1..Len(abstract_verbs) :
            /\ str_contains(step_lower, abstract_verbs[i])
            /\ \A j \in (i + 1)..Len(abstract_verbs) :
                    ~str_contains(step_lower, abstract_verbs[j])
    ELSE 0

\* Index of the first denylist entry found in the text, 0 when there is none
\* (the for loop of _validate_step raises at the first match).
first_abstract_verb(step_lower) ==
    IF \E i \in 1..Len(abstract_verbs) : str_contains(step_lower, abstract_verbs[i])
    THEN CHOOSE i \in 1..Len(abstract_verbs) :
            /\ str_contains(step_lower, abstract_verbs[i])
            /\ \A j \in 1..(i - 1) : ~str_contains(step_lower, abstract_verbs[j])
    ELSE 0

(***************************************************************************)
(* json.loads: the backend's text either is no JSON document or is one     *)
(* JSON value.                                                             *)
(***************************************************************************)
NotJson == [doc |-> "text"]
Json(v) == [doc |-> "json", value |-> v]

KeyStep == <<"s","t","e","p">>
KeyEstimatedSeconds ==
    <<"e","s","t","i","m","a","t","e","d","_","s","e","c","o","n","d","s">>

\* Outcomes of a call: a returned value or a raised exception.
Return(v) == [kind |-> "return", value |-> v]
Raise(exc, msg, limit, verb) ==
    [kind |-> "raise", exc |-> exc, msg |-> msg, limit |-> limit, verb |-> verb]

InvalidJson == Raise("ValueError", "Invalid JSON response from LLM", None, None)
MissingFields == Raise("ValueError", "Missing required fields in step", None, None)
ExceedsLimit(max_time) ==
    Raise("ValueError", "Step exceeds limit", Some(max_time), None)
ContainsAbstractVerb(verb) ==
    Raise("ValueError", "Step contains abstract verb", None, Some(verb))
TypeError == Raise("TypeError", "", None, None)
AttributeError == Raise("AttributeError", "", None, None)

\* `key in step_data` for the Python value json.loads returned; "TypeError"
\* when the value is not a container.
py_in(keyName, keyChars, step_data) ==
    CASE step_data.kind = "dict" -> IF keyName \in DOMAIN step_data.o THEN "yes" ELSE "no"
      [] step_data.kind = "list" ->
            IF \E i \in 1..Len(step_data.items) : step_data.items[i] = JStr(keyChars)
            THEN "yes" ELSE "no"
      [] step_data.kind = "str" -> IF str_contains(step_data.s, keyChars) THEN "yes" ELSE "no"
      [] OTHER -> "TypeError"

\* Mutant of py_gt: the comparison is >= .
py_gt_or_equal(estimated_seconds, max_time) ==
    CASE estimated_seconds.kind = "int" ->
            IF estimated_seconds.i >= max_time THEN "yes" ELSE "no"
      [] estimated_seconds.kind = "float" ->
            IF estimated_seconds.twice >= 2 * max_time THEN "yes" ELSE "no"
      [] estimated_seconds.kind = "bool" ->
            IF (IF estimated_seconds.b THEN 1 ELSE 0) >= max_time THEN "yes" ELSE "no"
      [] OTHER -> "TypeError"

\* `estimated_seconds > max_time`: "TypeError" when the value is no number.
py_gt(estimated_seconds, max_time) ==
    CASE estimated_seconds.kind = "int" ->
            IF estimated_seconds.i > max_time THEN "yes" ELSE "no"
      [] estimated_seconds.kind = "float" ->
            IF estimated_seconds.twice > 2 * max_time THEN "yes" ELSE "no"
      [] estimated_seconds.kind = "bool" ->
            IF (IF estimated_seconds.b THEN 1 ELSE 0) > max_time THEN "yes" ELSE "no"
      [] OTHER -> "TypeError"

\* step_data.get("is_complete", False)
get_is_complete(o) ==
    IF "is_complete" \in DOMAIN o THEN o.is_complete ELSE JBool(FALSE)

\* The time limit _validate_step enforces.
max_time_of(enforce_shorter) ==
    IF enforce_shorter THEN simplification_max_seconds ELSE max_step_seconds

\* The dict _validate_step returns.
validated_step(o) ==
    Return([step |-> o.step,
            estimated_seconds |-> o.estimated_seconds,
            is_complete |-> get_is_complete(o)])

\* Mutant of validate_text: the text is not lower-cased before the denylist loop.
validate_text_case_sensitive(o) ==
    LET step_text == o.step
        hit == first_abstract_verb(step_text.s)
    IN  IF step_text.kind # "str" THEN AttributeError
        ELSE IF hit # 0 THEN ContainsAbstractVerb(abstract_verbs[hit])
        ELSE validated_step(o)

\* Mutant of validate_text: a text that starts with no concrete verb is rejected.
validate_text_allowlist_rejects(o) ==
    LET step_text == o.step
        step_lower == lower(step_text.s)
        hit == first_abstract_verb(step_lower)
    IN  IF step_text.kind # "str" THEN AttributeError
        ELSE IF hit # 0 THEN ContainsAbstractVerb(abstract_verbs[hit])
        ELSE IF ~has_concrete_verb(step_lower)
             THEN Raise("ValueError", "Step has no concrete verb", None, None)
        ELSE validated_step(o)

\* Mutant of validate_text: the denylist loop is left out.
validate_text_no_denylist(o) ==
    IF o.step.kind # "str" THEN AttributeError ELSE validated_step(o)

\* The denylist loop, the advisory allowlist and the return of _validate_step.
validate_text(o) ==
    LET step_text == o.step
        step_lower == lower(step_text.s)
        hit == first_abstract_verb(step_lower)
    IN  IF step_text.kind # "str" THEN AttributeError
        ELSE IF hit # 0 THEN ContainsAbstractVerb(abstract_verbs[hit])
        ELSE IF ~has_concrete_verb(step_lower) THEN validated_step(o)   \* pass
        ELSE validated_step(o)

validate_step(llm_response, enforce_shorter) ==
    IF llm_response.doc # "json" THEN InvalidJson
    ELSE
    LET step_data == llm_response.value
        hasStep == py_in("step", KeyStep, step_data)
        hasSeconds == py_in("estimated_seconds", KeyEstimatedSeconds, step_data)
        max_time == max_time_of(enforce_shorter)
    IN  IF hasStep = "TypeError" THEN TypeError
        ELSE IF hasStep = "no" \/ hasSeconds = "no" THEN MissingFields
        ELSE IF step_data.kind # "dict" THEN TypeError
        ELSE IF py_gt(step_data.o.estimated_seconds, max_time) = "TypeError" THEN TypeError
        ELSE IF py_gt(step_data.o.estimated_seconds, max_time) = "yes"
             THEN ExceedsLimit(max_time)
        ELSE validate_text(step_data.o)

(***************************************************************************)
(* Backend outputs handed to the validator.                                *)
(***************************************************************************)
Words ==
    { <<"P","l","a","n">>, <<"t","h","i","n","k">>, <<"t">>,
      <<"t","a","p"," ">>, <<"p","e","n">> }

RECURSIVE TextsUpTo(_)
TextsUpTo(n) ==
    IF n = 0 THEN { <<>> }
    ELSE LET shorter == TextsUpTo(n - 1)
         IN  shorter \cup { t \o w : t \in shorter, w \in Words }

Texts == TextsUpTo(MaxWords)

\* A JSON object with the members that are present (None: the member is absent).
Obj(step, estimated_seconds, is_complete) ==
    LET keys == (IF step # None THEN {"step"} ELSE {})
                \cup (IF estimated_seconds # None THEN {"estimated_seconds"} ELSE {})
                \cup (IF is_complete # None THEN {"is_complete"} ELSE {})
    IN  JDict([k \in keys |->
                 CASE k = "step" -> step[1]
                   [] k = "estimated_seconds" -> estimated_seconds[1]
                   [] OTHER -> is_complete[1]])

StepMembers ==
    {None} \cup { Some(JStr(t)) : t \in Texts } \cup { Some(JInt(1)), Some(JNull) }

SecondsMembers ==
    {None} \cup { Some(JInt(n)) : n \in 0..MaxSeconds }
           \cup { Some(JFloat(9)), Some(JFloat(11)), Some(JStr(<<"5">>)), Some(JNull) }

CompleteMembers == { None, Some(JBool(TRUE)), Some(JBool(FALSE)) }

JsonObjects ==
    { Obj(st, es, ic) : st \in StepMembers, es \in SecondsMembers, ic \in CompleteMembers }

JsonOthers ==
    { JList(<<>>), JList(<<JStr(KeyStep)>>),
      JList(<<JStr(KeyStep), JStr(KeyEstimatedSeconds)>>),
      JStr(KeyStep), JStr(KeyStep \o <<" ">> \o KeyEstimatedSeconds),
      JInt(5), JBool(TRUE), JNull }

Candidates == {NotJson} \cup { Json(v) : v \in JsonObjects \cup JsonOthers }

NotRun == [kind |-> "none"]

(***************************************************************************)
(* The validator on its own: one call of _validate_step per behaviour.     *)
(***************************************************************************)
StoreInit ==
    /\ tasks = <<>>
    /\ steps = <<>>
    /\ clock = 0
    /\ reqs = [r \in {} |-> 0]
    /\ started = 0
    /\ returned = [op |-> "none"]

\* No operation of the service is running on its own.
ServiceIdle ==
    /\ g_op = "none"
    /\ g_reply = NotJson
    /\ g_pc = "done"
    /\ g_calls = 0
    /\ g_validations = 0
    /\ g_response = None
    /\ g_result = NotRun

\* No method of the store is being executed and no connection is open.
ConnIdle ==
    /\ c_call = "none"
    /\ c_phase = "handler"
    /\ c_open = 0
    /\ c_txn = FALSE

VInit ==
    /\ StoreInit
    /\ ConnIdle
    /\ v_response \in Candidates
    /\ v_enforce \in BOOLEAN
    /\ v_result = NotRun
    /\ ServiceIdle

Validate ==
    /\ v_result = NotRun
    /\ v_result' = validate_step(v_response, v_enforce)
    /\ UNCHANGED <<v_response, v_enforce, storeVars, serviceVars, connVars>>

VNext == Validate

VSpec == VInit /\ [][VNext]_vars

(***************************************************************************)
(* The store (database.py).  A table is the sequence of its rows; the id   *)
(* of a row is its index, and 0 is an id that names no row.  Each          *)
(* operation opens its own connection and commits, so it is one step.      *)
(***************************************************************************)
\* The insert leaving out the status, with a column default of 'pending'.
create_task_pending(ts, goal, energy_level) ==
    Append(ts, [id |-> Len(ts) + 1,
                original_goal |-> goal,
                status |-> "pending",
                energy_level |-> energy_level])

create_task(ts, goal, energy_level) ==
    Append(ts, [id |-> Len(ts) + 1,
                original_goal |-> goal,
                status |-> "active",
                energy_level |-> energy_level])

\* The insert guarded by a compare-and-swap on step_order: a row of the task
\* with the given step_order makes the insert take the next free order.
create_step_free_order(ss, task_id, step_text, estimated_seconds, step_order, simplification_level) ==
    LET taken == { ss[i].step_order : i \in { j \in DOMAIN ss : ss[j].task_id = task_id } }
        free == IF step_order \in taken
                THEN (CHOOSE x \in taken : \A y \in taken : y <= x) + 1
                ELSE step_order
    IN  Append(ss, [id |-> Len(ss) + 1,
                    task_id |-> task_id,
                    step_text |-> step_text,
                    estimated_seconds |-> estimated_seconds,
                    actual_duration_seconds |-> None,
                    step_order |-> free,
                    simplification_level |-> simplification_level,
                    completed |-> FALSE,
                    completed_at |-> None])

create_step(ss, task_id, step_text, estimated_seconds, step_order, simplification_level) ==
    Append(ss, [id |-> Len(ss) + 1,
                task_id |-> task_id,
                step_text |-> step_text,
                estimated_seconds |-> estimated_seconds,
                actual_duration_seconds |-> None,
                step_order |-> step_order,
                simplification_level |-> simplification_level,
                completed |-> FALSE,
                completed_at |-> None])

\* Completion as `DELETE FROM steps WHERE id = ?`.
mark_step_completed_by_delete(ss, step_id, duration, now) ==
    SelectSeq(ss, LAMBDA row : row.id # step_id)

\* Completion as `SET completed = NOT completed`.
mark_step_completed_toggle(ss, step_id, duration, now) ==
    [i \in DOMAIN ss |->
        IF ss[i].id = step_id
        THEN [ss[i] EXCEPT !.completed = ~ss[i].completed,
                           !.completed_at = Some(now),
                           !.actual_duration_seconds = duration]
        ELSE ss[i]]

\* Completion with `AND completed = FALSE` added to its WHERE clause: a
\* completed step keeps its timestamp and duration.
mark_step_completed_if_open(ss, step_id, duration, now) ==
    [i \in DOMAIN ss |->
        IF ss[i].id = step_id /\ ~ss[i].completed
        THEN [ss[i] EXCEPT !.completed = TRUE,
                           !.completed_at = Some(now),
                           !.actual_duration_seconds = duration]
        ELSE ss[i]]

\* Completion with `AND completed = TRUE` added to its WHERE clause: an open
\* step is never matched.
mark_step_completed_of_completed(ss, step_id, duration, now) ==
    [i \in DOMAIN ss |->
        IF ss[i].id = step_id /\ ss[i].completed
        THEN [ss[i] EXCEPT !.completed = TRUE,
                           !.completed_at = Some(now),
                           !.actual_duration_seconds = duration]
        ELSE ss[i]]

mark_step_completed(ss, step_id, duration, now) ==
    [i \in DOMAIN ss |->
        IF ss[i].id = step_id
        THEN [ss[i] EXCEPT !.completed = TRUE,
                           !.completed_at = Some(now),
                           !.actual_duration_seconds = duration]
        ELSE ss[i]]

\* The update with `AND status = 'active'` added to its WHERE clause.
update_task_status_of_active(ts, task_id, status) ==
    [i \in DOMAIN ts |->
        IF ts[i].id = task_id /\ ts[i].status = "active"
        THEN [ts[i] EXCEPT !.status = status] ELSE ts[i]]

\* The update as an upsert (INSERT ... ON CONFLICT(id) DO UPDATE): a task_id
\* without a row gets one.
update_task_status_or_insert(ts, task_id, status) ==
    IF \E i \in DOMAIN ts : ts[i].id = task_id
    THEN [i \in DOMAIN ts |->
            IF ts[i].id = task_id THEN [ts[i] EXCEPT !.status = status] ELSE ts[i]]
    ELSE Append(ts, [id |-> task_id,
                     original_goal |-> <<>>,
                     status |-> status,
                     energy_level |-> None])

update_task_status(ts, task_id, status) ==
    [i \in DOMAIN ts |->
        IF ts[i].id = task_id THEN [ts[i] EXCEPT !.status = status] ELSE ts[i]]

get_task(ts, task_id) ==
    IF \E i \in DOMAIN ts : ts[i].id = task_id
    THEN Some(ts[CHOOSE i \in DOMAIN ts : ts[i].id = task_id])
    ELSE None

get_step(ss, step_id) ==
    IF \E i \in DOMAIN ss : ss[i].id = step_id
    THEN Some(ss[CHOOSE i \in DOMAIN ss : ss[i].id = step_id])
    ELSE None

\* Mutant of get_current_step: the query leaves out `completed = FALSE`.
get_current_step_any(ss, task_id) ==
    LET rows == { i \in DOMAIN ss : ss[i].task_id = task_id }
        first == { i \in rows : \A j \in rows : ss[j].step_order <= ss[i].step_order }
    IN  IF rows = {} THEN {None} ELSE { Some(ss[i]) : i \in first }

\* SELECT ... WHERE task_id = ? AND completed = FALSE ORDER BY step_order DESC
\* LIMIT 1: the rows the query may return (rows of equal step_order come in an
\* order SQL leaves open), or {None} when no row matches.
get_current_step(ss, task_id) ==
    LET rows == { i \in DOMAIN ss : ss[i].task_id = task_id /\ ~ss[i].completed }
        first == { i \in rows : \A j \in rows : ss[j].step_order <= ss[i].step_order }
    IN  IF rows = {} THEN {None} ELSE { Some(ss[i]) : i \in first }

\* SELECT MAX(step_order): None when the task has no step.
max_step_order(ss, task_id) ==
    LET rows == { i \in DOMAIN ss : ss[i].task_id = task_id }
    IN  IF rows = {} THEN None
        ELSE Some(ss[CHOOSE i \in rows :
                        \A j \in rows : ss[j].step_order <= ss[i].step_order].step_order)

\* Python's `x or y` on Optional[int]: y when x is None or 0.
py_or(x, y) == IF x = None \/ x = Some(0) THEN y ELSE x[1]

get_next_step_order(ss, task_id) == py_or(max_step_order(ss, task_id), -1) + 1

(***************************************************************************)
(* The generation service (MicroWinService).  The backend is a black box:  *)
(* its reply to a prompt is an input of the step that receives it, either  *)
(* a failed call or the text of the "response" member.                     *)
(***************************************************************************)
\* What the backend does with one POST /api/generate, besides answering with
\* a body {"response": <text>} (the text is then a NotJson or Json document):
BackendFailure == [doc |-> "error"]             \* the connection fails
BackendTimeout == [doc |-> "timeout"]           \* no answer within the timeout
BackendStatus == [doc |-> "status"]             \* an answer with a 4xx/5xx status
BackendUnreadable == [doc |-> "unreadable"]     \* a body that is no JSON
BackendNotObject == [doc |-> "not_object"]      \* a JSON body that is no object
BackendNoResponse == [doc |-> "no_response"]    \* an object without "response"

\* The exception the body of the try statement of _call_llm raises, or None.
raised_in_try(reply) ==
    CASE reply.doc = "error" -> Some("ConnectError")            \* client.post
      [] reply.doc = "timeout" -> Some("ReadTimeout")           \* client.post
      [] reply.doc = "status" -> Some("HTTPStatusError")        \* raise_for_status
      [] reply.doc = "unreadable" -> Some("JSONDecodeError")    \* response.json
      [] reply.doc = "not_object" -> Some("AttributeError")     \* data.get
      [] OTHER -> None

\* data.get("response", ""): the empty text is no JSON document.
response_text(reply) ==
    IF reply.doc = "no_response" THEN NotJson ELSE reply

\* ValueError(f"Ollama API error: {str(e)}")
OllamaError(cause) ==
    [kind |-> "raise", exc |-> "ValueError", msg |-> "Ollama API error",
     limit |-> None, verb |-> None, cause |-> cause]

\* _call_llm with its `except Exception` left out: the exception of the try
\* body reaches the caller as it is.
call_llm_uncaught(reply) ==
    IF raised_in_try(reply) # None
    THEN Raise(raised_in_try(reply)[1], "", None, None)
    ELSE Return(response_text(reply))

call_llm(reply) ==
    IF raised_in_try(reply) # None
    THEN OllamaError(raised_in_try(reply)[1])
    ELSE Return(response_text(reply))

generate_initial_step(goal, energy_level, reply) ==
    LET response == call_llm(reply)
    IN  IF response.kind = "raise" THEN response
        ELSE validate_step(response.value, FALSE)

generate_next_step(goal, previous_step, energy_level, reply) ==
    LET response == call_llm(reply)
    IN  IF response.kind = "raise" THEN response
        ELSE validate_step(response.value, FALSE)

simplify_step(current_step, simplification_level, reply) ==
    LET response == call_llm(reply)
    IN  IF response.kind = "raise" THEN response
        ELSE validate_step(response.value, TRUE)

(***************************************************************************)
(* One operation of the service on its own, statement by statement:        *)
(*     response = await self._call_llm(user_prompt)                        *)
(*     validated_step = self._validate_step(response[, enforce_shorter])   *)
(*     return validated_step                                               *)
(***************************************************************************)
ServiceOps == { "generate_initial_step", "generate_next_step", "simplify_step" }

BackendReplies ==
    { BackendFailure, BackendTimeout, BackendStatus, BackendUnreadable,
      BackendNotObject, BackendNoResponse } \cup Candidates

\* Only simplify_step passes enforce_shorter=True.
enforce_shorter_of(op) == op = "simplify_step"

\* The operation with a retry: a failed call is made again.
after_call_llm_retry(response) ==
    IF response.kind = "raise" THEN "call_llm" ELSE "validate_step"

\* Where the operation is after `response = await self._call_llm(...)`: an
\* exception of the call leaves the operation, nothing catches it.
after_call_llm(response) ==
    IF response.kind = "raise" THEN "done" ELSE "validate_step"

GInit ==
    /\ StoreInit
    /\ ConnIdle
    /\ v_response = NotJson
    /\ v_enforce = FALSE
    /\ v_result = NotRun
    /\ g_op \in ServiceOps
    /\ g_reply \in BackendReplies
    /\ g_pc = "call_llm"
    /\ g_calls = 0
    /\ g_validations = 0
    /\ g_response = None
    /\ g_result = NotRun

GCallLlm ==
    LET response == call_llm(g_reply)
    IN  /\ g_pc = "call_llm"
        /\ g_calls' = g_calls + 1
        /\ g_pc' = after_call_llm(response)
        /\ g_response' = IF response.kind = "return" THEN Some(response.value) ELSE None
        /\ g_result' = IF response.kind = "raise" THEN response ELSE g_result
        /\ UNCHANGED <<g_op, g_reply, g_validations, storeVars, validatorVars, connVars>>

GValidateStep ==
    /\ g_pc = "validate_step"
    /\ g_validations' = g_validations + 1
    /\ g_result' = validate_step(g_response[1], enforce_shorter_of(g_op))
    /\ g_pc' = "done"
    /\ UNCHANGED <<g_op, g_reply, g_calls, g_response, storeVars, validatorVars, connVars>>

GNext == GCallLlm \/ GValidateStep

GSpec == GInit /\ [][GNext]_vars

(***************************************************************************)
(* Responses of the handlers (models.py, app.py).                          *)
(***************************************************************************)
HTTPException(status_code, detail) ==
    [status_code |-> status_code, detail |-> detail]

\* str(e) of a raised exception, as the detail of a 500.
str_exc(e) ==
    IF "cause" \in DOMAIN e
    THEN [msg |-> e.msg, limit |-> e.limit, verb |-> e.verb, cause |-> e.cause]
    ELSE [msg |-> e.msg, limit |-> e.limit, verb |-> e.verb]

\* MicroWinResponse(...): estimated_seconds is an int field and is_complete a
\* bool field; any other value fails the model's validation, which the
\* handler's `except Exception` turns into a 500.
response_fields_ok(step_data) ==
    /\ step_data.estimated_seconds.kind \in {"int", "bool"}
    /\ step_data.is_complete.kind = "bool"

MicroWinResponse(task_id, step_id, step_data, simplification_level, step_order) ==
    IF response_fields_ok(step_data)
    THEN [status_code |-> 200,
          task_id |-> task_id,
          step_id |-> step_id,
          step_text |-> step_data.step.s,
          estimated_seconds |-> step_data.estimated_seconds,
          simplification_level |-> simplification_level,
          step_order |-> step_order,
          is_complete |-> step_data.is_complete.b]
    ELSE HTTPException(500, [msg |-> "validation error", limit |-> None, verb |-> None])

\* The MicroWinResponse of the current step is built from the stored row:
\* a row whose estimated_seconds is no int fails the model's validation, which
\* the handler's `except Exception` turns into a 500.
TaskResumeResponse(task, current_step) ==
    IF current_step # None /\ current_step[1].estimated_seconds.kind \notin {"int", "bool"}
    THEN HTTPException(500, [msg |-> "validation error", limit |-> None, verb |-> None])
    ELSE
    [status_code |-> 200,
     task_id |-> task.id,
     original_goal |-> task.original_goal,
     current_step |->
        IF current_step = None THEN None
        ELSE Some([task_id |-> task.id,
                   step_id |-> current_step[1].id,
                   step_text |-> current_step[1].step_text,
                   estimated_seconds |-> current_step[1].estimated_seconds,
                   simplification_level |-> current_step[1].simplification_level,
                   step_order |-> current_step[1].step_order,
                   is_complete |-> FALSE]),
     status |-> "active"]

PauseResponse(task_id) ==
    [status_code |-> 200, status |-> "paused", task_id |-> task_id]

(***************************************************************************)
(* Requests.  A slot holds one running handler: its position (the await it *)
(* is at) and its locals.  When a handler returns or raises, its slot is   *)
(* free again and `returned` holds its response.                           *)
(***************************************************************************)
Slots == 1..MaxInFlight

Idle ==
    [op |-> "none", pc |-> "idle", task_id |-> 0, step_id |-> 0,
     duration_seconds |-> None, task |-> None, previous_step_text |-> <<>>,
     current_step |-> None, step_data |-> None, next_order |-> 0,
     new_step_id |-> 0]

Begin(op, pc, task_id, step_id) ==
    [Idle EXCEPT !.op = op, !.pc = pc, !.task_id = task_id, !.step_id = step_id]

NoResponse == [op |-> "none"]

Finish(r, req, response) ==
    /\ reqs' = [reqs EXCEPT ![r] = Idle]
    /\ returned' = [op |-> req.op, task_id |-> req.task_id, response |-> response]

Continue(r, req) ==
    /\ reqs' = [reqs EXCEPT ![r] = req]
    /\ UNCHANGED returned

\* A request is accepted into the lowest free slot.
Accepts(r) ==
    /\ started < MaxRequests
    /\ reqs[r].pc = "idle"
    /\ \A q \in Slots : q < r => reqs[q].pc # "idle"

Goals == { <<"g">> }
EnergyLevels == { None, Some("low") }
Durations == {None} \cup { Some(d) : d \in 1..MaxDuration }

\* The ids a request can name.  An id is generated inside the handler that
\* creates the row and leaves the server only with that handler's response,
\* so a row is named only once the handler that created it has ended.
TaskIds ==
    {0} \cup { t \in 1..Len(tasks) :
                \A q \in Slots : ~(reqs[q].op = "start" /\ reqs[q].task_id = t) }
StepIds ==
    {0} \cup { i \in 1..Len(steps) :
                \A q \in Slots : ~(reqs[q].op = "simplify" /\ reqs[q].new_step_id = i) }

ApiText == <<"t","a","p"," ","p","e","n">>
ApiReplies ==
    { BackendFailure,
      Json(Obj(Some(JStr(ApiText)), Some(JInt(3)), None)),
      Json(Obj(Some(JStr(ApiText)), Some(JInt(3)), Some(JBool(TRUE)))),
      Json(Obj(Some(JStr(ApiText)), Some(JInt(7)), Some(JBool(FALSE)))),
      Json(Obj(Some(JStr(ApiText)), Some(JInt(11)), None)),
      Json(Obj(Some(JStr(ApiText)), Some(JFloat(9)), None)),
      Json(Obj(Some(JStr(<<"P","l","a","n">>)), Some(JInt(3)), None)) }

Detail(msg) == [msg |-> msg, limit |-> None, verb |-> None]

(***************************************************************************)
(* POST /api/task/start (start_task).                                      *)
(***************************************************************************)
\* request.energy_level or "medium"
energy_or_medium(energy_level) ==
    IF energy_level = None THEN "medium" ELSE energy_level[1]

\* start_task writing a placeholder step together with the task, before the
\* backend is called.
StartCreateTaskAndStep(r) ==
    \E goal \in Goals, energy_level \in EnergyLevels :
        /\ Accepts(r)
        /\ tasks' = create_task(tasks, goal, energy_level)
        /\ steps' = create_step(steps, Len(tasks) + 1, <<>>, JInt(0), 0, 0)
        /\ Continue(r, [Begin("start", "generate", Len(tasks) + 1, 0)
                            EXCEPT !.task = Some(tasks'[Len(tasks) + 1])])
        /\ started' = started + 1
        /\ UNCHANGED <<clock, validatorVars, serviceVars>>

StartCreateTask(r) ==
    \E goal \in Goals, energy_level \in EnergyLevels :
        /\ Accepts(r)
        /\ tasks' = create_task(tasks, goal, energy_level)
        /\ Continue(r, [Begin("start", "generate", Len(tasks) + 1, 0)
                            EXCEPT !.task = Some(tasks'[Len(tasks) + 1])])
        /\ started' = started + 1
        /\ UNCHANGED <<steps, clock, validatorVars, serviceVars>>

\* start_task deleting the task it created when the generation fails.
StartGenerateOrDelete(r) ==
    \E reply \in ApiReplies :
        LET req == reqs[r]
            task == req.task[1]
            result == generate_initial_step(task.original_goal,
                                            energy_or_medium(task.energy_level), reply)
        IN  /\ req.op = "start" /\ req.pc = "generate"
            /\ IF result.kind = "raise"
               THEN /\ Finish(r, req, HTTPException(500, str_exc(result)))
                    /\ tasks' = [i \in DOMAIN tasks |->
                                    IF tasks[i].id = req.task_id
                                    THEN [tasks[i] EXCEPT !.status = "deleted"]
                                    ELSE tasks[i]]
               ELSE /\ Continue(r, [req EXCEPT !.pc = "create_step",
                                               !.step_data = Some(result.value)])
                    /\ tasks' = tasks
            /\ UNCHANGED <<steps, clock, started, validatorVars, serviceVars>>

StartGenerate(r) ==
    \E reply \in ApiReplies :
        LET req == reqs[r]
            task == req.task[1]
            result == generate_initial_step(task.original_goal,
                                            energy_or_medium(task.energy_level), reply)
        IN  /\ req.op = "start" /\ req.pc = "generate"
            /\ IF result.kind = "raise"
               THEN Finish(r, req, HTTPException(500, str_exc(result)))
               ELSE Continue(r, [req EXCEPT !.pc = "create_step",
                                            !.step_data = Some(result.value)])
            /\ UNCHANGED <<tasks, steps, clock, started, validatorVars, serviceVars>>

StartCreateStep(r) ==
    LET req == reqs[r]
        step_data == req.step_data[1]
        step_order == 0
    IN  /\ req.op = "start" /\ req.pc = "create_step"
        /\ steps' = create_step(steps, req.task_id, step_data.step.s,
                                step_data.estimated_seconds, step_order, 0)
        /\ Finish(r, req, MicroWinResponse(req.task_id, Len(steps) + 1,
                                           step_data, 0, step_order))
        /\ UNCHANGED <<tasks, clock, started, validatorVars, serviceVars>>

(***************************************************************************)
(* POST /api/task/next (next_step).                                        *)
(***************************************************************************)
\* next_step looking the task up first: the named step is not completed when
\* the handler starts.
NextLookupFirst(r) ==
    \E task_id \in TaskIds, step_id \in StepIds, duration_seconds \in Durations :
        /\ Accepts(r)
        /\ Continue(r, [Begin("next", "get_task", task_id, step_id)
                            EXCEPT !.duration_seconds = duration_seconds])
        /\ started' = started + 1
        /\ UNCHANGED <<tasks, steps, clock, validatorVars, serviceVars>>

NextMarkCompleted(r) ==
    \E task_id \in TaskIds, step_id \in StepIds, duration_seconds \in Durations :
        /\ Accepts(r)
        /\ steps' = mark_step_completed(steps, step_id, duration_seconds, clock)
        /\ clock' = clock + 1
        /\ Continue(r, [Begin("next", "get_task", task_id, step_id)
                            EXCEPT !.duration_seconds = duration_seconds])
        /\ started' = started + 1
        /\ UNCHANGED <<tasks, validatorVars, serviceVars>>

\* next_step refusing a task that is not active.
NextGetTaskIfActive(r) ==
    LET req == reqs[r]
        task == get_task(tasks, req.task_id)
    IN  /\ req.op = "next" /\ req.pc = "get_task"
        /\ IF task = None
           THEN Finish(r, req, HTTPException(404, Detail("Task not found")))
           ELSE IF task[1].status # "active"
                THEN Finish(r, req, HTTPException(409, Detail("Task is paused")))
                ELSE Continue(r, [req EXCEPT !.pc = "get_step", !.task = task])
        /\ UNCHANGED <<tasks, steps, clock, started, validatorVars, serviceVars>>

NextGetTask(r) ==
    LET req == reqs[r]
        task == get_task(tasks, req.task_id)
    IN  /\ req.op = "next" /\ req.pc = "get_task"
        /\ IF task = None
           THEN Finish(r, req, HTTPException(404, Detail("Task not found")))
           ELSE Continue(r, [req EXCEPT !.pc = "get_step", !.task = task])
        /\ UNCHANGED <<tasks, steps, clock, started, validatorVars, serviceVars>>

NextGetStep(r) ==
    LET req == reqs[r]
        completed_step == get_step(steps, req.step_id)
    IN  /\ req.op = "next" /\ req.pc = "get_step"
        /\ Continue(r, [req EXCEPT !.pc = "generate",
                                   !.previous_step_text =
                                        IF completed_step # None
                                        THEN completed_step[1].step_text ELSE <<>>])
        /\ UNCHANGED <<tasks, steps, clock, started, validatorVars, serviceVars>>

NextGenerate(r) ==
    \E reply \in ApiReplies :
        LET req == reqs[r]
            task == req.task[1]
            result == generate_next_step(task.original_goal, req.previous_step_text,
                                         energy_or_medium(task.energy_level), reply)
        IN  /\ req.op = "next" /\ req.pc = "generate"
            /\ IF result.kind = "raise"
               THEN Finish(r, req, HTTPException(500, str_exc(result)))
               ELSE Continue(r, [req EXCEPT !.pc = "get_next_step_order",
                                            !.step_data = Some(result.value)])
            /\ UNCHANGED <<tasks, steps, clock, started, validatorVars, serviceVars>>

NextGetOrder(r) ==
    LET req == reqs[r]
    IN  /\ req.op = "next" /\ req.pc = "get_next_step_order"
        /\ Continue(r, [req EXCEPT !.pc = "create_step",
                                   !.next_order = get_next_step_order(steps, req.task_id)])
        /\ UNCHANGED <<tasks, steps, clock, started, validatorVars, serviceVars>>

\* next_step closing the task when the backend reports the goal finished.
NextCreateStepClosing(r) ==
    LET req == reqs[r]
        step_data == req.step_data[1]
    IN  /\ req.op = "next" /\ req.pc = "create_step"
        /\ steps' = create_step(steps, req.task_id, step_data.step.s,
                                step_data.estimated_seconds, req.next_order, 0)
        /\ tasks' = IF step_data.is_complete = JBool(TRUE)
                    THEN update_task_status(tasks, req.task_id, "completed")
                    ELSE tasks
        /\ Finish(r, req, MicroWinResponse(req.task_id, Len(steps) + 1,
                                           step_data, 0, req.next_order))
        /\ UNCHANGED <<clock, started, validatorVars, serviceVars>>

NextCreateStep(r) ==
    LET req == reqs[r]
        step_data == req.step_data[1]
    IN  /\ req.op = "next" /\ req.pc = "create_step"
        /\ steps' = create_step(steps, req.task_id, step_data.step.s,
                                step_data.estimated_seconds, req.next_order, 0)
        /\ Finish(r, req, MicroWinResponse(req.task_id, Len(steps) + 1,
                                           step_data, 0, req.next_order))
        /\ UNCHANGED <<tasks, clock, started, validatorVars, serviceVars>>

(***************************************************************************)
(* POST /api/task/simplify (simplify_step of app.py).                      *)
(***************************************************************************)
\* The handler never reads request.step_id.
SimplifyGetCurrent(r) ==
    \E task_id \in TaskIds, step_id \in {0} :
    \E current_step \in get_current_step(steps, task_id) :
        /\ Accepts(r)
        /\ IF current_step = None
           THEN Finish(r, Begin("simplify", "get_current_step", task_id, step_id),
                       HTTPException(404, Detail("No current step found")))
           ELSE Continue(r, [Begin("simplify", "generate", task_id, step_id)
                                EXCEPT !.current_step = current_step])
        /\ started' = started + 1
        /\ UNCHANGED <<tasks, steps, clock, validatorVars, serviceVars>>

SimplifyGenerate(r) ==
    \E reply \in ApiReplies :
        LET req == reqs[r]
            current_step == req.current_step[1]
            result == simplify_step(current_step.step_text,
                                    current_step.simplification_level, reply)
        IN  /\ req.op = "simplify" /\ req.pc = "generate"
            /\ IF result.kind = "raise"
               THEN Finish(r, req, HTTPException(500, str_exc(result)))
               ELSE Continue(r, [req EXCEPT !.pc = "create_step",
                                            !.step_data = Some(result.value)])
            /\ UNCHANGED <<tasks, steps, clock, started, validatorVars, serviceVars>>

\* simplify_step creating the replacement only while the step it read is
\* still the one current step of the task, and answering 409 otherwise.
SimplifyCreateStepIfCurrent(r) ==
    LET req == reqs[r]
        current_step == req.current_step[1]
        step_data == req.step_data[1]
    IN  /\ req.op = "simplify" /\ req.pc = "create_step"
        /\ IF get_current_step(steps, req.task_id) = { Some(steps[current_step.id]) }
           THEN /\ steps' = create_step(steps, req.task_id, step_data.step.s,
                                        step_data.estimated_seconds,
                                        current_step.step_order,
                                        current_step.simplification_level + 1)
                /\ Continue(r, [req EXCEPT !.pc = "mark_step_completed",
                                           !.new_step_id = Len(steps) + 1])
           ELSE /\ steps' = steps
                /\ Finish(r, req, HTTPException(409, Detail("Step changed")))
        /\ UNCHANGED <<tasks, clock, started, validatorVars, serviceVars>>

SimplifyCreateStep(r) ==
    LET req == reqs[r]
        current_step == req.current_step[1]
        step_data == req.step_data[1]
    IN  /\ req.op = "simplify" /\ req.pc = "create_step"
        /\ steps' = create_step(steps, req.task_id, step_data.step.s,
                                step_data.estimated_seconds, current_step.step_order,
                                current_step.simplification_level + 1)
        /\ Continue(r, [req EXCEPT !.pc = "mark_step_completed",
                                   !.new_step_id = Len(steps) + 1])
        /\ UNCHANGED <<tasks, clock, started, validatorVars, serviceVars>>

SimplifyMarkCompleted(r) ==
    LET req == reqs[r]
        current_step == req.current_step[1]
        step_data == req.step_data[1]
    IN  /\ req.op = "simplify" /\ req.pc = "mark_step_completed"
        /\ steps' = mark_step_completed(steps, current_step.id, None, clock)
        /\ clock' = clock + 1
        /\ Finish(r, req, MicroWinResponse(req.task_id, req.new_step_id, step_data,
                                           current_step.simplification_level + 1,
                                           current_step.step_order))
        /\ UNCHANGED <<tasks, started, validatorVars, serviceVars>>

(***************************************************************************)
(* POST /api/task/pause and GET /api/task/resume/{task_id}.                *)
(***************************************************************************)
\* The handler never reads request.step_id.
PauseTask(r) ==
    \E task_id \in TaskIds, step_id \in {0} :
        /\ Accepts(r)
        /\ tasks' = update_task_status(tasks, task_id, "paused")
        /\ Finish(r, Begin("pause", "update_task_status", task_id, step_id),
                  PauseResponse(task_id))
        /\ started' = started + 1
        /\ UNCHANGED <<steps, clock, validatorVars, serviceVars>>

ResumeGetTask(r) ==
    \E task_id \in TaskIds :
        LET task == get_task(tasks, task_id)
        IN  /\ Accepts(r)
            /\ IF task = None
               THEN Finish(r, Begin("resume", "get_task", task_id, 0),
                           HTTPException(404, Detail("Task not found")))
               ELSE Continue(r, [Begin("resume", "get_current_step", task_id, 0)
                                    EXCEPT !.task = task])
            /\ started' = started + 1
            /\ UNCHANGED <<tasks, steps, clock, validatorVars, serviceVars>>

ResumeGetCurrent(r) ==
    \E current_step \in get_current_step(steps, reqs[r].task_id) :
        LET req == reqs[r]
        IN  /\ req.op = "resume" /\ req.pc = "get_current_step"
            /\ Continue(r, [req EXCEPT !.pc = "update_task_status",
                                       !.current_step = current_step])
            /\ UNCHANGED <<tasks, steps, clock, started, validatorVars, serviceVars>>

ResumeUpdateStatus(r) ==
    LET req == reqs[r]
    IN  /\ req.op = "resume" /\ req.pc = "update_task_status"
        /\ tasks' = update_task_status(tasks, req.task_id, "active")
        /\ Finish(r, req, TaskResumeResponse(req.task[1], req.current_step))
        /\ UNCHANGED <<steps, clock, started, validatorVars, serviceVars>>

(***************************************************************************)
(* A request abandoned while its handler awaits the backend: the handler's *)
(* task is cancelled inside `await client.post(...)`.  CancelledError is   *)
(* no Exception, so neither `except Exception` of _call_llm nor that of    *)
(* the handler catches it: the handler ends there and sends no response.   *)
(***************************************************************************)
Abandon(r) ==
    /\ reqs[r].op \in { "start", "next", "simplify" }
    /\ reqs[r].pc = "generate"
    /\ reqs' = [reqs EXCEPT ![r] = Idle]
    /\ UNCHANGED <<tasks, steps, clock, started, returned, validatorVars, serviceVars>>

(***************************************************************************)
(* The server: handlers of concurrent requests interleave at their awaits. *)
(***************************************************************************)
Init ==
    /\ tasks = <<>>
    /\ steps = <<>>
    /\ clock = 0
    /\ reqs = [r \in Slots |-> Idle]
    /\ started = 0
    /\ returned = NoResponse
    /\ v_response = NotJson
    /\ v_enforce = FALSE
    /\ v_result = NotRun
    /\ ServiceIdle
    /\ ConnIdle

\* The actions of the handlers say nothing of the store connection: here a
\* store call is one step and leaves no connection behind (ConnSpec below
\* takes the calls apart).
Handler(r) ==
        \/ StartCreateTask(r) /\ UNCHANGED connVars
        \/ StartGenerate(r) /\ UNCHANGED connVars
        \/ StartCreateStep(r) /\ UNCHANGED connVars
        \/ NextMarkCompleted(r) /\ UNCHANGED connVars
        \/ NextGetTask(r) /\ UNCHANGED connVars
        \/ NextGetStep(r) /\ UNCHANGED connVars
        \/ NextGenerate(r) /\ UNCHANGED connVars
        \/ NextGetOrder(r) /\ UNCHANGED connVars
        \/ NextCreateStep(r) /\ UNCHANGED connVars
        \/ SimplifyGetCurrent(r) /\ UNCHANGED connVars
        \/ SimplifyGenerate(r) /\ UNCHANGED connVars
        \/ SimplifyCreateStep(r) /\ UNCHANGED connVars
        \/ SimplifyMarkCompleted(r) /\ UNCHANGED connVars
        \/ PauseTask(r) /\ UNCHANGED connVars
        \/ ResumeGetTask(r) /\ UNCHANGED connVars
        \/ ResumeGetCurrent(r) /\ UNCHANGED connVars
        \/ ResumeUpdateStatus(r) /\ UNCHANGED connVars
        \/ Abandon(r) /\ UNCHANGED connVars

Next == \E r \in Slots : Handler(r)

Spec == Init /\ [][Next]_vars

(***************************************************************************)
(* The server with one request at a time: a request is accepted only when  *)
(* no handler is running.                                                  *)
(***************************************************************************)
NoneRunning == \A q \in Slots : reqs[q].pc = "idle"

SeqStartCreateTask(r) == NoneRunning /\ StartCreateTask(r)
SeqNextMarkCompleted(r) == NoneRunning /\ NextMarkCompleted(r)
SeqSimplifyGetCurrent(r) == NoneRunning /\ SimplifyGetCurrent(r)
SeqPauseTask(r) == NoneRunning /\ PauseTask(r)
SeqResumeGetTask(r) == NoneRunning /\ ResumeGetTask(r)

SeqNext ==
    \E r \in Slots :
        \/ SeqStartCreateTask(r) /\ UNCHANGED connVars
        \/ StartGenerate(r) /\ UNCHANGED connVars
        \/ StartCreateStep(r) /\ UNCHANGED connVars
        \/ SeqNextMarkCompleted(r) /\ UNCHANGED connVars
        \/ NextGetTask(r) /\ UNCHANGED connVars
        \/ NextGetStep(r) /\ UNCHANGED connVars
        \/ NextGenerate(r) /\ UNCHANGED connVars
        \/ NextGetOrder(r) /\ UNCHANGED connVars
        \/ NextCreateStep(r) /\ UNCHANGED connVars
        \/ SeqSimplifyGetCurrent(r) /\ UNCHANGED connVars
        \/ SimplifyGenerate(r) /\ UNCHANGED connVars
        \/ SimplifyCreateStep(r) /\ UNCHANGED connVars
        \/ SimplifyMarkCompleted(r) /\ UNCHANGED connVars
        \/ SeqPauseTask(r) /\ UNCHANGED connVars
        \/ SeqResumeGetTask(r) /\ UNCHANGED connVars
        \/ ResumeGetCurrent(r) /\ UNCHANGED connVars
        \/ ResumeUpdateStatus(r) /\ UNCHANGED connVars
        \/ Abandon(r) /\ UNCHANGED connVars

SeqSpec == Init /\ [][SeqNext]_vars

(***************************************************************************)
(* The server with one request at a time and every method of the store     *)
(* statement by statement (database.py):                                   *)
(*     async with aiosqlite.connect(self.db_path) as db:                   *)
(*         await db.execute(...)                                           *)
(*         await db.commit()              -- the methods that write        *)
(*     return ...                                                          *)
(* and the call of the backend in two steps, the request sent and the      *)
(* reply received.  The method's effect on the tables and on the handler's *)
(* locals is taken in the step in which the method returns.                *)
(***************************************************************************)
Writes == { "create_task", "create_step", "mark_step_completed", "update_task_status" }
Reads == { "get_task", "get_step", "get_current_step", "get_next_step_order" }

\* The first store call of start_task, next_step, simplify_step, pause_task
\* and resume_task.
FirstCalls ==
    { "create_task", "mark_step_completed", "get_current_step",
      "update_task_status", "get_task" }

\* async with aiosqlite.connect(self.db_path) as db: the handler, or a request
\* that arrives, is at a call of the store.
CConnect ==
    /\ c_phase = "handler"
    /\ \E call \in Writes \cup Reads :
        /\ IF reqs[1].pc = "idle"
           THEN started < MaxRequests /\ call \in FirstCalls
           ELSE call = reqs[1].pc
        /\ c_call' = call
    /\ c_phase' = "connected"
    /\ c_open' = c_open + 1
    /\ UNCHANGED <<c_txn, storeVars, validatorVars, serviceVars>>

\* await db.execute(...): an INSERT or UPDATE opens a transaction.
CExecute ==
    /\ c_phase = "connected"
    /\ c_phase' = "executed"
    /\ c_txn' = (c_call \in Writes)
    /\ UNCHANGED <<c_call, c_open, storeVars, validatorVars, serviceVars>>

\* await db.commit()
CCommit ==
    /\ c_phase = "executed"
    /\ c_call \in Writes
    /\ c_phase' = "committed"
    /\ c_txn' = FALSE
    /\ UNCHANGED <<c_call, c_open, storeVars, validatorVars, serviceVars>>

\* A store whose connection stays open when the method returns (no
\* `async with`).
CCloseLeaving ==
    /\ \/ c_phase = "committed"
       \/ c_phase = "executed" /\ c_call \in Reads
    /\ c_phase' = "closed"
    /\ UNCHANGED <<c_call, c_open, c_txn, storeVars, validatorVars, serviceVars>>

\* The end of the `async with` block closes the connection.
CClose ==
    /\ \/ c_phase = "committed"
       \/ c_phase = "executed" /\ c_call \in Reads
    /\ c_phase' = "closed"
    /\ c_open' = c_open - 1
    /\ UNCHANGED <<c_call, c_txn, storeVars, validatorVars, serviceVars>>

\* The method returns to the handler.
CReturns(call) ==
    /\ c_phase = "closed"
    /\ c_call = call
    /\ c_phase' = "handler"
    /\ c_call' = "none"
    /\ UNCHANGED <<c_open, c_txn>>

\* await client.post(...): the request is sent to the backend.
CCallBackend ==
    /\ c_phase = "handler"
    /\ reqs[1].pc = "generate"
    /\ c_phase' = "awaiting"
    /\ UNCHANGED <<c_call, c_open, c_txn, storeVars, validatorVars, serviceVars>>

\* The wait for the backend ends.
CAwaited ==
    /\ c_phase = "awaiting"
    /\ c_phase' = "handler"
    /\ UNCHANGED <<c_call, c_open, c_txn>>

ConnNext ==
    \/ CConnect
    \/ CExecute
    \/ CCommit
    \/ CClose
    \/ CCallBackend
    \/ CReturns("create_task") /\ StartCreateTask(1)
    \/ CAwaited /\ StartGenerate(1)
    \/ CReturns("create_step") /\ StartCreateStep(1)
    \/ CReturns("mark_step_completed") /\ NextMarkCompleted(1)
    \/ CReturns("get_task") /\ NextGetTask(1)
    \/ CReturns("get_step") /\ NextGetStep(1)
    \/ CAwaited /\ NextGenerate(1)
    \/ CReturns("get_next_step_order") /\ NextGetOrder(1)
    \/ CReturns("create_step") /\ NextCreateStep(1)
    \/ CReturns("get_current_step") /\ SimplifyGetCurrent(1)
    \/ CAwaited /\ SimplifyGenerate(1)
    \/ CReturns("create_step") /\ SimplifyCreateStep(1)
    \/ CReturns("mark_step_completed") /\ SimplifyMarkCompleted(1)
    \/ CReturns("update_task_status") /\ PauseTask(1)
    \/ CReturns("get_task") /\ ResumeGetTask(1)
    \/ CReturns("get_current_step") /\ ResumeGetCurrent(1)
    \/ CReturns("update_task_status") /\ ResumeUpdateStatus(1)
    \/ CAwaited /\ Abandon(1)

ConnSpec == Init /\ [][ConnNext]_vars

(***************************************************************************)
(* Properties.                                                             *)
(***************************************************************************)
StepsOf(ss, task_id) == { i \in DOMAIN ss : ss[i].task_id = task_id }
Uncompleted(ss, task_id) == { i \in StepsOf(ss, task_id) : ~ss[i].completed }
Largest(S) == CHOOSE x \in S : \A y \in S : y <= x

\* C1: the step start creates has step_order 0, and the step next creates has
\* step_order (maximum step_order among the task's existing steps) + 1.
C1_StepOrderIsMaxPlusOne ==
    [][\A r \in Slots :
        LET req == reqs[r]
            orders == { steps[i].step_order : i \in StepsOf(steps, req.task_id) }
        IN  /\ (req.op = "start" /\ req.pc = "create_step" /\ reqs'[r].pc = "idle")
                => steps'[Len(steps')].step_order = 0
            /\ (req.op = "next" /\ req.pc = "get_next_step_order"
                                /\ reqs'[r].pc = "create_step")
                => reqs'[r].next_order = (IF orders = {} THEN 0 ELSE Largest(orders) + 1)
            /\ (req.op = "next" /\ req.pc = "create_step" /\ reqs'[r].pc = "idle")
                => steps'[Len(steps')].step_order = req.next_order
      ]_vars

\* C2 as stated: the uncompleted step of maximum step_order is unique, for
\* every task.
C2_CurrentStepIsUnique ==
    \A t \in 1..Len(tasks) :
        LET unc == Uncompleted(steps, t)
        IN  Cardinality({ i \in unc :
                \A j \in unc : steps[j].step_order <= steps[i].step_order }) <= 1

\* C2, amended: every row the current-step query may return for a task is an
\* uncompleted step of that task whose step_order no uncompleted step of the
\* task exceeds, and the query returns no row exactly when the task has no
\* uncompleted step.
C2_CurrentStepIsMaxUncompleted ==
    \A t \in 0..Len(tasks) :
        \A current_step \in get_current_step(steps, t) :
            IF Uncompleted(steps, t) = {}
            THEN current_step = None
            ELSE /\ current_step # None
                 /\ current_step[1].id \in Uncompleted(steps, t)
                 /\ steps[current_step[1].id] = current_step[1]
                 /\ \A j \in Uncompleted(steps, t) :
                        steps[j].step_order <= current_step[1].step_order

\* A task with a completed step and two uncompleted ones.
C2_Witness ==
    \E t \in 1..Len(tasks) :
        /\ Cardinality(Uncompleted(steps, t)) >= 2
        /\ StepsOf(steps, t) # Uncompleted(steps, t)

\* C3: when a simplify request succeeds on current step S (step_order o, level
\* n), one new step exists with step_order o and level n + 1, S is completed
\* with no duration, and the current-step query then returns the new step.
C3_SimplifyReplacesCurrent ==
    [][\A r \in Slots :
        (/\ reqs[r].op = "simplify" /\ reqs[r].pc = "mark_step_completed"
         /\ reqs'[r].pc = "idle"
         /\ returned'.response.status_code = 200)
        => LET S == reqs[r].current_step[1]
               new == reqs[r].new_step_id
           IN  /\ new = Len(steps')
               /\ steps'[new].task_id = reqs[r].task_id
               /\ steps'[new].step_order = S.step_order
               /\ steps'[new].simplification_level = S.simplification_level + 1
               /\ ~steps'[new].completed
               /\ steps'[S.id].completed
               /\ steps'[S.id].actual_duration_seconds = None
               /\ get_current_step(steps', reqs[r].task_id) = { Some(steps'[new]) }
      ]_vars

\* C4: what simplify_step returns, and the response built from it, has
\* is_complete = false.
C4_SimplifyNeverComplete ==
    /\ \A r \in Slots :
            (reqs[r].op = "simplify" /\ reqs[r].step_data # None)
                => reqs[r].step_data[1].is_complete = JBool(FALSE)
    /\ (returned.op = "simplify" /\ returned.response.status_code = 200)
            => returned.response.is_complete = FALSE

(***************************************************************************)
(* Properties of the validator, on the run of VSpec.                       *)
(***************************************************************************)
Validated == v_result # NotRun

\* The candidate parses to an object that has both required members.
HasBothFields ==
    /\ v_response.doc = "json"
    /\ v_response.value.kind = "dict"
    /\ {"step", "estimated_seconds"} \subseteq DOMAIN v_response.value.o

CandidateStep == v_response.value.o.step
CandidateSeconds == v_response.value.o.estimated_seconds

Ceiling == IF v_enforce THEN 5 ELSE 10

IsNumber(x) == x.kind \in {"int", "float", "bool"}

Exceeds(x, ceiling) ==
    \/ x.kind = "int" /\ x.i > ceiling
    \/ x.kind = "float" /\ x.twice > 2 * ceiling

Denylisted(text, i) == str_contains(lower(text), abstract_verbs[i])
HasDenylisted(text) == \E i \in 1..Len(abstract_verbs) : Denylisted(text, i)

\* C5: a candidate with both required members fails with the time-budget
\* error carrying the ceiling of the mode (10, or 5 under enforce_shorter)
\* exactly when its estimated_seconds is greater than that ceiling.
C5_TimeBudget ==
    (Validated /\ HasBothFields) =>
        /\ (v_result = ExceedsLimit(Ceiling)) <=> Exceeds(CandidateSeconds, Ceiling)
        /\ (v_result.kind = "raise" /\ v_result.msg = "Step exceeds limit")
                => v_result.limit = Some(Ceiling)

\* Scenario D: 6 seconds under enforce_shorter.
C5_Witness ==
    /\ Validated /\ HasBothFields /\ v_enforce
    /\ CandidateSeconds = JInt(6)
    /\ v_result = ExceedsLimit(5)

\* C6: a candidate that passes the parse, required-member and time-budget
\* rules fails with the abstract-verb error exactly when its lower-cased step
\* text contains a denylist entry.
C6_Denylist ==
    (/\ Validated /\ HasBothFields
     /\ IsNumber(CandidateSeconds) /\ ~Exceeds(CandidateSeconds, Ceiling))
    => ((v_result.kind = "raise" /\ v_result.msg = "Step contains abstract verb")
            <=> (CandidateStep.kind = "str" /\ HasDenylisted(CandidateStep.s)))

\* "Plant": an upper-case letter, and the entry inside a longer word.
C6_Witness ==
    /\ Validated /\ HasBothFields
    /\ CandidateStep = JStr(<<"P","l","a","n","t">>)
    /\ v_result = ContainsAbstractVerb(<<"p","l","a","n">>)

\* C7: a candidate whose estimated_seconds does not exceed the ceiling and
\* whose step text contains no denylist entry is returned as the record of
\* its step, its estimated_seconds and its is_complete (false when absent),
\* whether or not the text starts with a concrete verb.
C7_AcceptedUnchanged ==
    (/\ Validated /\ HasBothFields
     /\ IsNumber(CandidateSeconds) /\ ~Exceeds(CandidateSeconds, Ceiling)
     /\ CandidateStep.kind = "str" /\ ~HasDenylisted(CandidateStep.s))
    => v_result = Return([step |-> CandidateStep,
                          estimated_seconds |-> CandidateSeconds,
                          is_complete |->
                              IF "is_complete" \in DOMAIN v_response.value.o
                              THEN v_response.value.o.is_complete
                              ELSE JBool(FALSE)])

\* A text that starts with no concrete verb is accepted, is_complete absent.
C7_Witness ==
    /\ Validated /\ HasBothFields
    /\ CandidateStep.kind = "str" /\ CandidateStep.s # <<>>
    /\ \A i \in 1..Len(concrete_verbs) :
            ~startswith(lower(CandidateStep.s), concrete_verbs[i])
    /\ "is_complete" \notin DOMAIN v_response.value.o
    /\ v_result.kind = "return"
    /\ v_result.value.is_complete = JBool(FALSE)

\* C8: the rules apply in the order parse failure, missing member, time
\* budget, denylist, and the denylist reports its first matching entry.
C8_RuleOrder ==
    Validated =>
        /\ v_response.doc # "json" => v_result = InvalidJson
        /\ (/\ v_response.doc = "json" /\ v_response.value.kind = "dict"
            /\ ~HasBothFields) => v_result = MissingFields
        /\ (HasBothFields /\ Exceeds(CandidateSeconds, Ceiling))
                => v_result = ExceedsLimit(Ceiling)
        /\ (/\ HasBothFields
            /\ IsNumber(CandidateSeconds) /\ ~Exceeds(CandidateSeconds, Ceiling)
            /\ CandidateStep.kind = "str" /\ HasDenylisted(CandidateStep.s))
                => \E i \in 1..Len(abstract_verbs) :
                        /\ Denylisted(CandidateStep.s, i)
                        /\ \A j \in 1..(i - 1) : ~Denylisted(CandidateStep.s, j)
                        /\ v_result = ContainsAbstractVerb(abstract_verbs[i])

\* "thinkPlan" holds two entries: over the ceiling it fails on the time
\* budget.
C8_Witness ==
    /\ Validated /\ HasBothFields
    /\ CandidateStep = JStr(<<"t","h","i","n","k","P","l","a","n">>)
    /\ Exceeds(CandidateSeconds, Ceiling)
    /\ v_result = ExceedsLimit(Ceiling)

\* C9: validate returns a record with a non-empty step text and an integer
\* estimated_seconds, or fails with one of the four validation errors.
C9_OnlyValidationOutcomes ==
    Validated =>
        \/ /\ v_result.kind = "return"
           /\ v_result.value.step.kind = "str"
           /\ v_result.value.step.s # <<>>
           /\ v_result.value.estimated_seconds.kind = "int"
        \/ /\ v_result.kind = "raise"
           /\ v_result.exc = "ValueError"
           /\ v_result.msg \in { "Invalid JSON response from LLM",
                                 "Missing required fields in step",
                                 "Step exceeds limit",
                                 "Step contains abstract verb" }

(***************************************************************************)
(* Properties of a start with energy_level = low.                          *)
(***************************************************************************)
AtMost(x, ceiling) == IsNumber(x) /\ ~Exceeds(x, ceiling)

\* What generate_initial_step returned to a running start of a low-energy
\* task, and the first step a finished one persisted and returned: its
\* estimated_seconds is at most `ceiling`, its text holds no denylist entry,
\* and the task is active.
LowEnergyStart(ceiling) ==
    /\ \A r \in Slots :
        (/\ reqs[r].op = "start"
         /\ reqs[r].task[1].energy_level = Some("low")
         /\ reqs[r].step_data # None)
        => /\ AtMost(reqs[r].step_data[1].estimated_seconds, ceiling)
           /\ ~HasDenylisted(reqs[r].step_data[1].step.s)
           /\ tasks[reqs[r].task_id].status = "active"
    /\ (/\ returned.op = "start"
        /\ returned.response.status_code = 200
        /\ tasks[returned.task_id].energy_level = Some("low"))
        => LET row == steps[returned.response.step_id]
           IN  /\ row.task_id = returned.task_id
               /\ \A i \in StepsOf(steps, returned.task_id) : row.id <= i
               /\ row.step_text = returned.response.step_text
               /\ row.estimated_seconds = returned.response.estimated_seconds
               /\ AtMost(row.estimated_seconds, ceiling)
               /\ ~HasDenylisted(row.step_text)
               /\ tasks[returned.task_id].status = "active"

\* C10 as stated: the step of a low-energy start has estimated_seconds <= 5.
C10_LowEnergyAtMostFive == LowEnergyStart(5)

\* C10, amended: the step of a low-energy start has estimated_seconds <= 10,
\* the ceiling of every start; it holds no denylist entry and the task is
\* active.
C10_LowEnergyAtMostTen == LowEnergyStart(10)

\* A low-energy start has returned a step of 7 seconds.
C10_Witness ==
    /\ returned.op = "start"
    /\ returned.response.status_code = 200
    /\ tasks[returned.task_id].energy_level = Some("low")
    /\ returned.response.estimated_seconds = JInt(7)
    /\ steps[returned.response.step_id].estimated_seconds = JInt(7)

(***************************************************************************)
(* Properties of the generation service.                                   *)
(***************************************************************************)
\* What the operation of the service run gives as a whole.
ServiceOutcome ==
    CASE g_op = "generate_initial_step" ->
            generate_initial_step(<<"g">>, "medium", g_reply)
      [] g_op = "generate_next_step" ->
            generate_next_step(<<"g">>, <<>>, "medium", g_reply)
      [] OTHER -> simplify_step(<<>>, 0, g_reply)

\* C11: an operation of the service calls the backend exactly once and
\* validates at most once; a failure of the call or of the validation is the
\* outcome of the operation (no retry, no fallback step), and a step is
\* returned only when the validator returned it for the backend's text.
C11_OneCallNoFallback ==
    /\ g_calls <= 1
    /\ g_validations <= 1
    /\ g_validations <= g_calls
    /\ (g_pc = "done" /\ g_op \in ServiceOps) =>
        /\ g_calls = 1
        /\ g_result = ServiceOutcome
        /\ IF g_response = None
           THEN /\ g_validations = 0
                /\ g_result.kind = "raise"
                /\ g_result.msg = "Ollama API error"
           ELSE /\ g_validations = 1
                /\ g_result = validate_step(g_response[1], g_op = "simplify_step")
        /\ g_result.kind = "return" =>
                /\ g_reply \in Candidates
                /\ validate_step(g_reply, g_op = "simplify_step") = g_result

\* A simplification whose backend text the validator rejected for its time.
C11_Witness ==
    /\ g_pc = "done"
    /\ g_op = "simplify_step"
    /\ g_calls = 1
    /\ g_validations = 1
    /\ g_result = ExceedsLimit(5)

\* The exceptions of the HTTP client and of the body's decoding.
BackendSpecific ==
    { "ConnectError", "ReadTimeout", "HTTPStatusError", "JSONDecodeError" }

\* C20: a connection failure, a timeout, a non-success status and an
\* unreadable body each leave _call_llm as the one error "Ollama API error"
\* with the cause in it; no operation ends with an exception of the HTTP
\* client; a text the backend sent is handed on as it is, unparsed.
C20_UniformBackendError ==
    (g_pc # "call_llm" /\ g_op \in ServiceOps) =>
        /\ g_reply \in { BackendFailure, BackendTimeout, BackendStatus,
                         BackendUnreadable, BackendNotObject } =>
                /\ g_response = None
                /\ g_result.kind = "raise"
                /\ g_result.exc = "ValueError"
                /\ g_result.msg = "Ollama API error"
                /\ g_result.cause \in BackendSpecific \cup { "AttributeError" }
        /\ g_reply = BackendFailure => g_result.cause = "ConnectError"
        /\ g_reply = BackendTimeout => g_result.cause = "ReadTimeout"
        /\ g_reply = BackendStatus => g_result.cause = "HTTPStatusError"
        /\ g_reply = BackendUnreadable => g_result.cause = "JSONDecodeError"
        /\ g_reply \in Candidates => g_response = Some(g_reply)
        /\ g_result.kind = "raise" => g_result.exc \notin BackendSpecific

\* The backend did not answer in time and the operation has ended.
C20_Witness ==
    /\ g_pc = "done"
    /\ g_reply = BackendTimeout
    /\ g_calls = 1
    /\ g_result = OllamaError("ReadTimeout")

(***************************************************************************)
(* Properties of the handlers' writes.                                     *)
(***************************************************************************)
\* The records the validator returns for the backend's replies.
ValidatedReplies(enforce_shorter) ==
    { validate_step(response_text(reply), enforce_shorter).value :
        reply \in { x \in ApiReplies :
                      /\ raised_in_try(x) = None
                      /\ validate_step(response_text(x), enforce_shorter).kind = "return" } }

GeneratingOps == { "start", "next", "simplify" }

\* C12: in start, next and simplify a step is written only after the
\* backend call and the validation succeeded.  A handler that awaits the
\* backend holds no validated step and has written no step; when it ends
\* there (generation or validation failed, or the request was abandoned) no
\* step is written; a handler gets its step data only from a successful
\* generation; and every step written is written by a handler past its
\* generation, from the validated data it holds.
C12_StepsOnlyAfterValidation ==
    [][ /\ \A r \in Slots :
            (reqs[r].op \in GeneratingOps /\ reqs[r].pc = "generate") =>
                /\ reqs[r].step_data = None
                /\ reqs[r].new_step_id = 0
                /\ reqs[r].op = "start" => StepsOf(steps, reqs[r].task_id) = {}
                /\ reqs'[r].pc = "idle" =>
                        /\ Len(steps') = Len(steps)
                        /\ reqs[r].op = "start" => StepsOf(steps', reqs[r].task_id) = {}
        /\ \A r \in Slots :
            (reqs'[r].step_data # None /\ reqs'[r].step_data # reqs[r].step_data) =>
                /\ reqs[r].pc = "generate"
                /\ reqs'[r].step_data[1] \in ValidatedReplies(reqs[r].op = "simplify")
        /\ Len(steps') # Len(steps) =>
                /\ Len(steps') = Len(steps) + 1
                /\ \E r \in Slots :
                        /\ reqs[r].op \in GeneratingOps
                        /\ reqs[r].pc = "create_step"
                        /\ reqs[r].step_data # None
                        /\ steps'[Len(steps')].task_id = reqs[r].task_id
                        /\ steps'[Len(steps')].step_text = reqs[r].step_data[1].step.s
                        /\ steps'[Len(steps')].estimated_seconds
                                = reqs[r].step_data[1].estimated_seconds
      ]_vars

\* A start was abandoned while the backend was called: the one request
\* accepted has ended without a response, leaving its task without a step.
C12_Witness ==
    /\ started = 1
    /\ \A r \in Slots : reqs[r].pc = "idle"
    /\ returned = NoResponse
    /\ Len(tasks) = 1
    /\ steps = <<>>

(***************************************************************************)
(* Properties of pause and resume.                                         *)
(***************************************************************************)
\* The step of a resume response, as the fields of a stored row.
SameStep(response_step, row) ==
    /\ response_step.step_id = row.id
    /\ response_step.task_id = row.task_id
    /\ response_step.step_text = row.step_text
    /\ response_step.estimated_seconds = row.estimated_seconds
    /\ response_step.step_order = row.step_order
    /\ response_step.simplification_level = row.simplification_level

\* A resume, run with no other request beside it, is about to end on a task
\* that is paused and has exactly one uncompleted step.
ResumesPaused(r) ==
    /\ reqs[r].op = "resume"
    /\ reqs[r].pc = "update_task_status"
    /\ tasks[reqs[r].task_id].status = "paused"
    /\ Cardinality(Uncompleted(steps, reqs[r].task_id)) = 1

\* C13: resume of a paused task with exactly one uncompleted step returns
\* that step with the id, text, seconds, order and level of its record,
\* leaves the step records unchanged and makes the task active.
C13_ResumeReturnsTheStep ==
    [][ \A r \in Slots :
            (ResumesPaused(r) /\ reqs'[r].pc = "idle") =>
                LET task_id == reqs[r].task_id
                    row == steps[CHOOSE i \in Uncompleted(steps, task_id) : TRUE]
                IN  /\ steps' = steps
                    /\ tasks'[task_id].status = "active"
                    /\ returned'.op = "resume"
                    /\ returned'.response.status_code = 200
                    /\ returned'.response.current_step # None
                    /\ SameStep(returned'.response.current_step[1], row)
      ]_vars

\* The transition is a pause request, handled in one step.
IsPause ==
    /\ started' = started + 1
    /\ reqs' = reqs
    /\ returned'.op = "pause"

\* C14: pause of an existing task sets its status to paused and resume sets
\* it to active, whatever the status was and whether or not the task has an
\* uncompleted step; neither creates, completes or modifies a step record.
C14_PauseResumeSetStatus ==
    [][ /\ IsPause =>
            /\ steps' = steps
            /\ returned'.task_id \in DOMAIN tasks =>
                    tasks'[returned'.task_id].status = "paused"
        /\ \A r \in Slots :
            /\ (reqs'[r] # reqs[r] /\ "resume" \in { reqs[r].op, reqs'[r].op }) =>
                    steps' = steps
            /\ (started' = started + 1 /\ returned'.op = "resume" /\ reqs' = reqs) =>
                    steps' = steps
            /\ (reqs[r].op = "resume" /\ reqs'[r].pc = "idle") =>
                    /\ reqs[r].task_id \in DOMAIN tasks
                    /\ tasks'[reqs[r].task_id].status = "active"
      ]_vars

\* A task that was paused while it has an uncompleted step.
C14_Witness ==
    /\ returned.op = "pause"
    /\ returned.task_id \in DOMAIN tasks
    /\ tasks[returned.task_id].status = "paused"
    /\ Uncompleted(steps, returned.task_id) # {}

(***************************************************************************)
(* Properties of concurrent next operations.                               *)
(***************************************************************************)
\* The handler in slot r is a next of the task that has read its step order
\* and has not yet written its step.
NextAboutToWrite(r, task_id) ==
    /\ reqs[r].op = "next"
    /\ reqs[r].task_id = task_id
    /\ reqs[r].pc = "create_step"

\* C15: next operations on one task are not serialized.  A next that has
\* read its step order appends its step with that order whatever was written
\* to the task since it read: the step is a new uncompleted step, no step
\* written before is changed, and another next of the same task that has
\* read its order keeps it and is not held back.  So two of them that both
\* read before either writes leave two new uncompleted steps of equal
\* step_order.
C15_NextNotSerialized ==
    [][ \A r \in Slots :
            (NextAboutToWrite(r, reqs[r].task_id) /\ reqs'[r].pc = "idle") =>
                /\ Len(steps') = Len(steps) + 1
                /\ \A i \in DOMAIN steps : steps'[i] = steps[i]
                /\ steps'[Len(steps')].task_id = reqs[r].task_id
                /\ steps'[Len(steps')].step_order = reqs[r].next_order
                /\ ~steps'[Len(steps')].completed
                /\ \A q \in Slots \ {r} :
                        NextAboutToWrite(q, reqs[r].task_id) =>
                            /\ reqs'[q] = reqs[q]
                            /\ reqs[q].next_order = reqs[r].next_order =>
                                    \E i \in Uncompleted(steps', reqs[r].task_id) :
                                        steps'[i].step_order = reqs'[q].next_order
      ]_vars

\* Two next handlers of one task have both read the step order and neither
\* has written: they hold the same order.
C15_Witness ==
    \E r, q \in Slots :
        /\ r # q
        /\ NextAboutToWrite(r, reqs[r].task_id)
        /\ NextAboutToWrite(q, reqs[r].task_id)
        /\ reqs[r].next_order = reqs[q].next_order
        /\ Cardinality(StepsOf(steps, reqs[r].task_id)) = 1

(***************************************************************************)
(* Properties of the step and task records.                                *)
(***************************************************************************)
\* C16: the step history is append-only.  No step record is deleted; the id,
\* task_id, step_text, estimated_seconds, step_order and simplification_level
\* of a step never change; a step record changes only by being marked
\* completed.
C16_StepsAppendOnly ==
    [][ /\ Len(steps') >= Len(steps)
        /\ \A i \in DOMAIN steps :
            /\ steps'[i].id = steps[i].id
            /\ steps'[i].task_id = steps[i].task_id
            /\ steps'[i].step_text = steps[i].step_text
            /\ steps'[i].estimated_seconds = steps[i].estimated_seconds
            /\ steps'[i].step_order = steps[i].step_order
            /\ steps'[i].simplification_level = steps[i].simplification_level
            /\ steps'[i] # steps[i] =>
                    /\ steps'[i].completed
                    /\ steps'[i].completed_at # None
      ]_vars

\* A step was marked completed while the task holds a later step.
C16_Witness ==
    \E i, j \in DOMAIN steps :
        /\ i < j
        /\ steps[i].task_id = steps[j].task_id
        /\ steps[i].completed
        /\ steps[i].completed_at # None
        /\ ~steps[j].completed

\* A step that is not completed has no completed_at and no duration.
OpenStepsUnstamped(ss) ==
    \A i \in DOMAIN ss :
        ~ss[i].completed =>
            /\ ss[i].completed_at = None
            /\ ss[i].actual_duration_seconds = None

\* C17: a step is created with completed = false; a step with completed =
\* false has neither completed_at nor actual_duration_seconds; a step that is
\* completed never becomes uncompleted again.
C17_CompletedIsFinal ==
    [][ /\ OpenStepsUnstamped(steps)
        /\ OpenStepsUnstamped(steps')
        /\ \A i \in DOMAIN steps' \ DOMAIN steps : ~steps'[i].completed
        /\ \A i \in DOMAIN steps \cap DOMAIN steps' :
                steps[i].completed => steps'[i].completed
      ]_vars

\* A next has completed a step with a duration and created the following
\* step, which is uncompleted and unstamped.
C17_Witness ==
    /\ returned.op = "next"
    /\ returned.response.status_code = 200
    /\ ~steps[returned.response.step_id].completed
    /\ steps[returned.response.step_id].completed_at = None
    /\ \E i \in DOMAIN steps :
            /\ steps[i].completed
            /\ steps[i].completed_at # None
            /\ steps[i].actual_duration_seconds = Some(1)

\* C18: every task has one status, out of active, paused and completed; a
\* task is created active; the id, original_goal and energy_level of a task
\* never change.
C18_TaskRecord ==
    [][ /\ \A t \in DOMAIN tasks' :
                tasks'[t].status \in { "active", "paused", "completed" }
        /\ Len(tasks') >= Len(tasks)
        /\ \A t \in DOMAIN tasks' \ DOMAIN tasks : tasks'[t].status = "active"
        /\ \A t \in DOMAIN tasks :
            /\ tasks'[t].id = tasks[t].id
            /\ tasks'[t].original_goal = tasks[t].original_goal
            /\ tasks'[t].energy_level = tasks[t].energy_level
      ]_vars

\* A task created with an energy level has been paused.
C18_Witness ==
    \E t \in DOMAIN tasks :
        /\ tasks[t].status = "paused"
        /\ tasks[t].energy_level = Some("low")
        /\ tasks[t].original_goal = <<"g">>

\* C19: no operation sets a task's status to completed.  When next has a
\* validated step with is_complete = true it leaves every task as it is and
\* writes that step as a new uncompleted step of the task.
C19_NeverCompleted ==
    [][ /\ \A t \in DOMAIN tasks' : tasks'[t].status # "completed"
        /\ \A r \in Slots :
            (/\ reqs[r].op = "next"
             /\ reqs[r].pc = "create_step"
             /\ reqs'[r].pc = "idle"
             /\ reqs[r].step_data[1].is_complete = JBool(TRUE)) =>
                /\ tasks' = tasks
                /\ Len(steps') = Len(steps) + 1
                /\ steps'[Len(steps')].task_id = reqs[r].task_id
                /\ steps'[Len(steps')].step_text = reqs[r].step_data[1].step.s
                /\ ~steps'[Len(steps')].completed
                /\ returned'.response.status_code = 200
                /\ returned'.response.is_complete
      ]_vars

\* next has answered is_complete = true: its step is stored uncompleted and
\* the task is still active.
C19_Witness ==
    /\ returned.op = "next"
    /\ returned.response.status_code = 200
    /\ returned.response.is_complete
    /\ ~steps[returned.response.step_id].completed
    /\ tasks[returned.task_id].status = "active"

(***************************************************************************)
(* The store connection of one handler.                                    *)
(***************************************************************************)
\* C21: while a start, next or simplify operation is at the backend call
\* or waits on it, it holds no store-side resource: no connection is open and
\* no transaction is open, every store call it made having opened, committed
\* and closed before the call began, and every later one opening only after
\* the wait ended.
C21_NoStoreResourceWhileWaiting ==
    /\ (c_phase = "awaiting" \/ reqs[1].pc = "generate")
            => /\ reqs[1].op \in { "start", "next", "simplify" }
               /\ c_call = "none"
               /\ c_open = 0
               /\ ~c_txn
    /\ c_phase \in { "connected", "executed", "committed" }
            => /\ c_open = 1
               /\ reqs[1].pc # "generate"
    /\ c_phase \in { "handler", "closed" } => c_open = 0 /\ ~c_txn

\* A next operation waits on the backend after its completion of a step was
\* committed.
C21_Witness ==
    /\ c_phase = "awaiting"
    /\ reqs[1].op = "next"
    /\ \E i \in DOMAIN steps : steps[i].id = reqs[1].step_id /\ steps[i].completed

(***************************************************************************)
(* One open step per task, one request at a time.                          *)
(***************************************************************************)
\* The open steps of every task while handlers run one at a time: at most
\* one, and in particular at most one when no handler is running; none while
\* a start or a next of the task is between its writes; the step read and
\* then its replacement too while a simplify of the task is between its
\* writes.
OneOpenStep ==
    \A t \in 0..Len(tasks) :
        LET unc == Uncompleted(steps, t)
            at(op, pcs) == \E r \in Slots : reqs[r].op = op /\ reqs[r].task_id = t
                                             /\ reqs[r].pc \in pcs
            the(op, pcs) == CHOOSE r \in Slots : reqs[r].op = op /\ reqs[r].task_id = t
                                                  /\ reqs[r].pc \in pcs
        IN  /\ Cardinality(unc) <= IF at("simplify", { "mark_step_completed" }) THEN 2 ELSE 1
            /\ at("start", { "generate", "create_step" }) => unc = {}
            /\ at("next", { "get_task", "get_step", "generate", "get_next_step_order",
                            "create_step" }) => unc = {}
            /\ at("simplify", { "generate", "create_step" })
                    => unc = { reqs[the("simplify", { "generate", "create_step" })]
                                    .current_step[1].id }
            /\ at("simplify", { "mark_step_completed" })
                    => LET req == reqs[the("simplify", { "mark_step_completed" })]
                       IN  unc = { req.current_step[1].id, req.new_step_id }

\* The step accepts a next request whose step_id is not the current
\* uncompleted step of its task_id.
NextNamesAnother ==
    \E r \in Slots :
        /\ reqs[r].pc = "idle"
        /\ reqs'[r].op = "next"
        /\ ~\E current_step \in get_current_step(steps, reqs'[r].task_id) :
                /\ current_step # None
                /\ current_step[1].id = reqs'[r].step_id

\* C22: with one request at a time, as long as every next request names
\* the current uncompleted step of its task, every task has at most one
\* uncompleted step whenever no operation is running, whether the operations
\* succeeded or failed (shown with the open steps a running operation leaves
\* between its writes).
C22_OneUncompletedAtBoundaries ==
    /\ OneOpenStep
    /\ [][(OneOpenStep /\ ~NextNamesAnother) => OneOpenStep']_vars

\* Three requests, a start, a next naming the current step and a simplify,
\* have left the task with two completed steps and one open step.
C22_Witness ==
    /\ NoneRunning
    /\ started = 3
    /\ Len(tasks) = 1
    /\ Len(steps) = 3
    /\ steps[2].simplification_level = 0
    /\ steps[3].simplification_level = 1
    /\ Uncompleted(steps, 1) = { 3 }
    /\ OneOpenStep

(***************************************************************************)
(* A next that fails.                                                      *)
(***************************************************************************)
\* C23: next completes the named step, with the supplied duration, before
\* it looks the task up and before it calls the backend; when it then fails
\* (task not found, backend call or validation of the reply failed) the step
\* stays completed and no step is created, so that a task left without an
\* uncompleted step has no current step: a resume of it returns no step and
\* a simplify of it answers that no current step was found.
C23_FailedNextLeavesStepCompleted ==
    [][\A r \in Slots :
        LET req == reqs[r]
            after == reqs'[r]
        IN  /\ (req.pc = "idle" /\ after.op = "next")
                => /\ after.pc = "get_task"
                   /\ after.task = None
                   /\ after.step_data = None
                   /\ Len(steps') = Len(steps)
                   /\ \A i \in DOMAIN steps :
                        IF i = after.step_id
                        THEN /\ steps'[i].completed
                             /\ steps'[i].actual_duration_seconds = after.duration_seconds
                        ELSE steps'[i] = steps[i]
            /\ (req.op = "next" /\ req.pc \in { "get_task", "generate" }
                                /\ after.pc = "idle")
                => /\ steps' = steps
                   /\ req.step_id \in DOMAIN steps
                        => /\ steps'[req.step_id].completed
                           /\ steps'[req.step_id].actual_duration_seconds
                                    = req.duration_seconds
                   /\ \A t \in 0..Len(tasks) :
                        Uncompleted(steps', t) = {}
                            => get_current_step(steps', t) = { None }
            /\ (req.op = "resume" /\ req.pc = "update_task_status"
                                  /\ Uncompleted(steps, req.task_id) = {})
                => /\ returned'.response.status_code = 200
                   /\ returned'.response.current_step = None
            /\ (req.pc = "idle" /\ after.op = "simplify")
                => Uncompleted(steps, after.task_id) # {}
            /\ (NoneRunning /\ NoneRunning' /\ started' = started + 1
                             /\ returned'.op = "simplify")
                => /\ Uncompleted(steps, returned'.task_id) = {}
                   /\ returned'.response
                        = HTTPException(404, Detail("No current step found"))
      ]_vars

\* A start, a next of its step that failed and then a resume of the task: the
\* only step of the task is completed with the duration supplied, and the
\* resume returned no step.
C23_Witness ==
    /\ NoneRunning
    /\ Len(tasks) = 1
    /\ Len(steps) = 1
    /\ steps[1].completed
    /\ steps[1].actual_duration_seconds = Some(1)
    /\ returned.op = "resume"
    /\ returned.response.status_code = 200
    /\ returned.response.current_step = None

(***************************************************************************)
(* A next that names any step.                                             *)
(***************************************************************************)
\* What a next request may be answered: the new step, "Task not found" when
\* the task is not in the store, or the failure of the generation or of the
\* response model.  No answer rejects the step_id.
NextAnswers(response, task_found) ==
    \/ response.status_code = 200
    \/ response = HTTPException(404, Detail("Task not found")) /\ ~task_found
    \/ response.status_code = 500
        /\ response.detail.msg \in { OllamaError("").msg, InvalidJson.msg,
                                     MissingFields.msg, ExceedsLimit(0).msg,
                                     ContainsAbstractVerb(<<>>).msg, TypeError.msg,
                                     AttributeError.msg, "validation error" }

\* C24: next does not check that step_id is the current uncompleted step
\* of task_id.  It completes whatever step is named, writing completed_at and
\* actual_duration_seconds anew also when the step was already completed (as
\* one replaced by simplify is); it goes on whenever the task exists, and it
\* appends a new uncompleted step to the named task whatever uncompleted
\* steps the task already has.
C24_NextCompletesWhateverIsNamed ==
    [][\A r \in Slots :
        LET req == reqs[r]
            after == reqs'[r]
        IN  /\ (req.pc = "idle" /\ after.op = "next")
                => /\ Len(steps') = Len(steps)
                   /\ \A i \in DOMAIN steps :
                        IF i = after.step_id
                        THEN steps'[i] = [steps[i] EXCEPT
                                !.completed = TRUE,
                                !.completed_at = Some(clock),
                                !.actual_duration_seconds = after.duration_seconds]
                        ELSE steps'[i] = steps[i]
            /\ (req.op = "next" /\ req.pc \in { "get_task", "get_step" })
                => \/ after.op = "next" /\ after.pc # req.pc
                   \/ /\ after.pc = "idle"
                      /\ req.task_id \notin 1..Len(tasks)
                      /\ returned'.response = HTTPException(404, Detail("Task not found"))
            /\ (req.op = "next" /\ after.pc = "idle")
                => \/ returned' = returned /\ req.pc = "generate"
                   \/ NextAnswers(returned'.response, req.task_id \in 1..Len(tasks))
            /\ (req.op = "next" /\ req.pc = "create_step" /\ after.pc = "idle")
                => /\ Len(steps') = Len(steps) + 1
                   /\ SubSeq(steps', 1, Len(steps)) = steps
                   /\ steps'[Len(steps')].task_id = req.task_id
                   /\ ~steps'[Len(steps')].completed
      ]_vars

\* A start, a simplify and then a next naming the step the simplify replaced:
\* the replaced step carries the timestamp and the duration of the next, and
\* the task has two uncompleted steps, the replacement and the new step.
C24_Witness ==
    /\ NoneRunning
    /\ returned.op = "next"
    /\ returned.response.status_code = 200
    /\ Len(steps) = 3
    /\ steps[1].completed_at = Some(1)
    /\ steps[1].actual_duration_seconds = Some(1)
    /\ steps[2].simplification_level = 1
    /\ Uncompleted(steps, 1) = { 2, 3 }

(***************************************************************************)
(* Simplify operations of one task that interleave.                        *)
(***************************************************************************)
\* The handler is a simplify of the task that has read its current step
\* and has not yet completed it.
SimplifyHolding(r, task_id) ==
    /\ reqs[r].op = "simplify"
    /\ reqs[r].task_id = task_id
    /\ reqs[r].pc \in { "generate", "create_step", "mark_step_completed" }

\* C25: simplify operations on one task are not serialized.  A simplify
\* that has read the current step S at level n creates its replacement at
\* S's step_order with level n + 1 whatever was written to the task since it
\* read, and another simplify that read the same S is neither held back nor
\* made to read again: both create a replacement, two uncompleted steps of
\* equal step_order and equal level.  Between the creation of a replacement
\* and the completion of S the two, as long as no other operation completed
\* one of them, are uncompleted steps of one task at one step_order, and the
\* current-step query may return either.
C25_SimplifyNotSerialized ==
    [][ \A r \in Slots :
        LET req == reqs[r]
            S == req.current_step[1]
        IN  /\ (req.op = "simplify" /\ req.pc = "create_step")
                => /\ reqs'[r] # req => reqs'[r].pc = "mark_step_completed"
                   /\ reqs'[r].pc = "mark_step_completed" =>
                        /\ Len(steps') = Len(steps) + 1
                        /\ \A i \in DOMAIN steps : steps'[i] = steps[i]
                        /\ steps'[Len(steps')].task_id = req.task_id
                        /\ steps'[Len(steps')].step_order = S.step_order
                        /\ steps'[Len(steps')].simplification_level
                                = S.simplification_level + 1
                        /\ ~steps'[Len(steps')].completed
                        /\ \A q \in Slots \ {r} :
                            (SimplifyHolding(q, req.task_id)
                                    /\ reqs[q].current_step[1].id = S.id)
                                => /\ reqs'[q] = reqs[q]
                                   /\ reqs[q].pc = "mark_step_completed"
                                        => \E i \in Uncompleted(steps', req.task_id) :
                                            /\ i = reqs[q].new_step_id
                                            /\ steps'[i].step_order = S.step_order
                                            /\ steps'[i].simplification_level
                                                = steps'[Len(steps')].simplification_level
            /\ (req.op = "simplify" /\ req.pc = "mark_step_completed"
                                    /\ ~steps[S.id].completed
                                    /\ ~steps[req.new_step_id].completed)
                => /\ steps[req.new_step_id].task_id = steps[S.id].task_id
                   /\ steps[req.new_step_id].step_order = steps[S.id].step_order
                   /\ (\A j \in Uncompleted(steps, req.task_id) :
                            steps[j].step_order <= S.step_order)
                        => { Some(steps[S.id]), Some(steps[req.new_step_id]) }
                                \subseteq get_current_step(steps, req.task_id)
      ]_vars

\* Two simplify handlers of one task read the same step S and each created
\* its replacement; neither has completed S.  The task has two uncompleted
\* replacements of equal step_order and equal level, and the current-step
\* query has three rows of that step_order to choose from.
C25_Witness ==
    \E r, q \in Slots :
        /\ r # q
        /\ SimplifyHolding(r, reqs[r].task_id)
        /\ SimplifyHolding(q, reqs[r].task_id)
        /\ reqs[r].pc = "mark_step_completed"
        /\ reqs[q].pc = "mark_step_completed"
        /\ reqs[r].current_step = reqs[q].current_step
        /\ LET a == reqs[r].new_step_id
               b == reqs[q].new_step_id
               S == reqs[r].current_step[1]
           IN  /\ { a, b, S.id } \subseteq Uncompleted(steps, reqs[r].task_id)
               /\ steps[a].step_order = steps[b].step_order
               /\ steps[a].step_order = S.step_order
               /\ steps[a].simplification_level = S.simplification_level + 1
               /\ steps[b].simplification_level = S.simplification_level + 1
               /\ Cardinality(get_current_step(steps, reqs[r].task_id)) = 3

(***************************************************************************)
(* A start that fails.                                                     *)
(***************************************************************************)
\* C26: start creates the Task record before it calls the backend and
\* nothing removes a Task record.  When the initial generation or the
\* validation of its reply fails, the task stays in the store with status
\* active and without any step, and a later resume of a task without steps
\* returns no current step and status active.
C26_FailedStartLeavesTask ==
    [][/\ Len(tasks') >= Len(tasks)
       /\ \A i \in DOMAIN tasks :
            /\ tasks'[i].id = tasks[i].id
            /\ tasks'[i].original_goal = tasks[i].original_goal
            /\ tasks'[i].status \in { "active", "paused" }
       /\ \A r \in Slots :
            LET req == reqs[r]
                after == reqs'[r]
            IN  /\ (req.pc = "idle" /\ after.op = "start")
                    => /\ after.pc = "generate"
                       /\ after.step_data = None
                       /\ after.task_id = Len(tasks')
                       /\ Len(tasks') = Len(tasks) + 1
                       /\ tasks'[after.task_id].status = "active"
                       /\ steps' = steps
                /\ (req.op = "start" /\ req.pc = "generate" /\ after.pc = "idle")
                    => /\ tasks' = tasks
                       /\ steps' = steps
                       /\ get_task(tasks', req.task_id) # None
                       /\ tasks'[req.task_id].status = "active"
                       /\ StepsOf(steps', req.task_id) = {}
                       /\ returned' # returned
                            => returned'.response.status_code = 500
                /\ (req.op = "resume" /\ req.pc = "update_task_status"
                                      /\ StepsOf(steps, req.task_id) = {})
                    => /\ after.pc = "idle"
                       /\ returned'.response.status_code = 200
                       /\ returned'.response.task_id = req.task_id
                       /\ returned'.response.current_step = None
                       /\ returned'.response.status = "active"
                       /\ tasks'[req.task_id].status = "active"
      ]_vars

\* The start of a task failed, and a resume of that task has then returned no
\* current step and status active: the task is in the store, active and
\* without steps.
C26_Witness ==
    /\ NoneRunning
    /\ started = 2
    /\ Len(tasks) = 1
    /\ tasks[1].status = "active"
    /\ Len(steps) = 0
    /\ returned.op = "resume"
    /\ returned.response.status_code = 200
    /\ returned.response.task_id = 1
    /\ returned.response.current_step = None
    /\ returned.response.status = "active"

(***************************************************************************)
(* The status of a task.                                                   *)
(***************************************************************************)
\* The transition is a step of a next or simplify handler.
IsNextOrSimplify ==
    \/ \E r \in Slots :
        /\ reqs'[r] # reqs[r]
        /\ { reqs[r].op, reqs'[r].op } \cap { "next", "simplify" } # {}
    \/ /\ started' = started + 1
       /\ reqs' = reqs
       /\ returned'.op = "simplify"

\* C27: next and simplify neither use nor write the status of the task.
\* No step of theirs changes a Task record; next goes on exactly when the
\* task exists and simplify exactly when the task has an uncompleted step,
\* and what next generates is determined by the goal and the energy level of
\* the task, its status playing no part.  A status changes only in a pause
\* (to paused) or at the end of a resume (to active), and a Task record
\* appears only in a start, with status active.
C27_StatusOnlyByPauseResume ==
    [][/\ IsNextOrSimplify => tasks' = tasks
       /\ \A i \in DOMAIN tasks :
            tasks'[i].status # tasks[i].status
                => \/ IsPause /\ returned'.task_id = i /\ tasks'[i].status = "paused"
                   \/ \E r \in Slots :
                        /\ reqs[r].op = "resume" /\ reqs[r].pc = "update_task_status"
                        /\ reqs[r].task_id = i
                        /\ reqs'[r].pc = "idle"
                        /\ tasks'[i].status = "active"
       /\ Len(tasks') # Len(tasks)
            => \E r \in Slots :
                /\ reqs[r].pc = "idle" /\ reqs'[r].op = "start"
                /\ Len(tasks') = Len(tasks) + 1
                /\ tasks'[Len(tasks')].status = "active"
       /\ \A r \in Slots :
            LET req == reqs[r]
                after == reqs'[r]
            IN  /\ (req.op = "next" /\ req.pc = "get_task" /\ after # req)
                    => IF req.task_id \in DOMAIN tasks
                       THEN after.pc = "get_step"
                       ELSE /\ after.pc = "idle"
                            /\ returned'.response
                                    = HTTPException(404, Detail("Task not found"))
                /\ (req.op = "next" /\ req.pc = "generate" /\ after # req)
                    => \/ after.pc = "idle" /\ returned' = returned
                       \/ \E reply \in ApiReplies :
                            LET result == generate_next_step(
                                    tasks[req.task_id].original_goal,
                                    req.previous_step_text,
                                    energy_or_medium(tasks[req.task_id].energy_level),
                                    reply)
                            IN  IF result.kind = "raise"
                                THEN /\ after.pc = "idle"
                                     /\ returned'.response
                                            = HTTPException(500, str_exc(result))
                                ELSE /\ after.pc = "get_next_step_order"
                                     /\ after.step_data = Some(result.value)
                /\ (req.pc = "idle" /\ after.op = "simplify")
                    => Uncompleted(steps, after.task_id) # {}
                /\ (IsNextOrSimplify /\ reqs' = reqs)
                    => /\ Uncompleted(steps, returned'.task_id) = {}
                       /\ returned'.response
                            = HTTPException(404, Detail("No current step found"))
      ]_vars

\* A next was answered with its new step for a task that is paused, and the
\* task is still paused.
C27_Witness ==
    /\ returned.op = "next"
    /\ returned.response.status_code = 200
    /\ returned.task_id \in DOMAIN tasks
    /\ tasks[returned.task_id].status = "paused"
    /\ \E i \in Uncompleted(steps, returned.task_id) :
            i = returned.response.step_id

(***************************************************************************)
(* Pause and resume of a task that is not in the store.                    *)
(***************************************************************************)
\* The transition is a resume that ended at its task lookup.
IsResumeNotFound ==
    /\ started' = started + 1
    /\ reqs' = reqs
    /\ returned'.op = "resume"

\* C28: for a task_id without a Task record, resume fails with 404 "Task
\* not found" and pause answers success with status paused; neither creates
\* or changes a task or step record.  A resume ends at its lookup only for
\* such a task_id.
C28_MissingTaskPauseResume ==
    [][/\ (IsPause /\ returned'.task_id \notin DOMAIN tasks)
            => /\ returned'.response = PauseResponse(returned'.task_id)
               /\ returned'.response.status_code = 200
               /\ returned'.response.status = "paused"
               /\ tasks' = tasks
               /\ steps' = steps
       /\ IsResumeNotFound
            => /\ returned'.task_id \notin DOMAIN tasks
               /\ returned'.response = HTTPException(404, Detail("Task not found"))
               /\ tasks' = tasks
               /\ steps' = steps
       /\ \A r \in Slots :
            (reqs[r].pc = "idle" /\ reqs'[r].op = "resume")
                => reqs'[r].task_id \in DOMAIN tasks
      ]_vars

\* A pause of a task_id that is not in the store was answered with status
\* paused; the store holds a task, still active, and its uncompleted step.
C28_Witness ==
    /\ returned.op = "pause"
    /\ returned.task_id \notin DOMAIN tasks
    /\ returned.response.status = "paused"
    /\ Len(tasks) = 1
    /\ tasks[1].status = "active"
    /\ Uncompleted(steps, 1) = { 1 }

====
